---------------------------- MODULE Spec2Model ----------------------------
(***************************************************************************)
(* A model of influxdb3-rs' data-model / encoding boundary:                *)
(*   - the PointValue model with its Encode / Decode conversions,          *)
(*   - the name validator and TagName construction,                        *)
(*   - Point::serialize (line protocol) and the write-side Batcher,        *)
(*   - the read-side decoder (get_arrow_value, get_point) and PointStream. *)
(*                                                                         *)
(* Text is a sequence of one-character strings (one element per byte), so  *)
(* that byte lengths, concatenation and escaping are computed, not assumed.*)
(* TLC's integers are 32 bits wide: 64-bit payloads (i64 / u64) are held   *)
(* as sign + four base-2^16 digits (see Wide below).                       *)
(***************************************************************************)
EXTENDS Integers, Sequences, FiniteSets, TLC

VARIABLES
    \* Batcher (batch_writer.rs)
    buffers,          \* Vec<Vec<u8>>: the sealed buffers
    current_buffer,   \* Vec<u8>: the open buffer
    current_lines,    \* usize: points appended to the open buffer
    precision,        \* TimestampPrecision of the Batcher
    default_tags,     \* &TagMap of the Batcher, in its iteration order
    added,            \* history: the points passed to add_point, in order
    phase,            \* "idle" | "open" | "finalized"
    yielded,          \* the buffers the iterator returned by finalize yields
    \* PointStream (point_stream.rs)
    inner,            \* the underlying source: [items, avail]
    batch_buffer,     \* Option<RecordBatch>: [some, batch]
    i,                \* usize: the row cursor
    len,              \* usize: the buffered batch's row count
    source_all,       \* history: everything the source will deliver, in order
    produced,         \* history: the Some(..) elements poll_next returned
    last_poll,        \* history: the kind of the last poll_next outcome
    \* pure conversions (point_value.rs, tag_name.rs, util.rs)
    fn,               \* which conversion the state applies
    arg,              \* its input
    ret,              \* its result, once pc = "done"
    pc                \* "idle" | "ready" | "done"

batcherVars == <<buffers, current_buffer, current_lines, precision,
                 default_tags, added, phase, yielded>>
streamVars  == <<inner, batch_buffer, i, len, source_all, produced, last_poll>>
pureVars    == <<fn, arg, ret, pc>>
vars        == <<batcherVars, streamVars, pureVars>>

----------------------------------------------------------------------------
(* Bytes and text                                                          *)

DigitChars == <<"0", "1", "2", "3", "4", "5", "6", "7", "8", "9">>

Digits == {"0", "1", "2", "3", "4", "5", "6", "7", "8", "9"}

UpperCase == {"A", "B", "C", "D", "E", "F", "G", "H", "I", "J", "K", "L", "M",
              "N", "O", "P", "Q", "R", "S", "T", "U", "V", "W", "X", "Y", "Z"}

LowerCase == {"a", "b", "c", "d", "e", "f", "g", "h", "i", "j", "k", "l", "m",
              "n", "o", "p", "q", "r", "s", "t", "u", "v", "w", "x", "y", "z"}

\* u8::is_ascii_alphanumeric
is_ascii_alphanumeric(b) == b \in Digits \cup UpperCase \cup LowerCase

RECURSIVE Concat(_)
\* The concatenation of a sequence of byte sequences.
Concat(ss) == IF ss = <<>> THEN <<>> ELSE Head(ss) \o Concat(Tail(ss))

RECURSIVE NatToChars(_)
\* Decimal digits of a natural number (u64::to_string on a small value).
NatToChars(n) ==
    IF n < 10 THEN <<DigitChars[n + 1]>>
    ELSE NatToChars(n \div 10) \o <<DigitChars[(n % 10) + 1]>>

\* i64::to_string on a value that fits TLC's integers.
IntToChars(n) == IF n < 0 THEN <<"-">> \o NatToChars(-n) ELSE NatToChars(n)


----------------------------------------------------------------------------
(* 64-bit integers: sign and magnitude, the magnitude as four base-2^16    *)
(* digits, most significant first.  Zero is never negative.                *)

Base == 256 * 256

Wide(neg, d3, d2, d1, d0) == [neg |-> neg, mag |-> <<d3, d2, d1, d0>>]

\* The wide form of an integer that fits TLC's integers.
W(n) == IF n < 0 THEN Wide(TRUE, 0, 0, (-n) \div Base, (-n) % Base)
                 ELSE Wide(FALSE, 0, 0, n \div Base, n % Base)

MagLess(x, y) ==
    \E k \in 1..4 : x[k] < y[k] /\ \A j \in 1..(k - 1) : x[j] = y[j]

\* a < b on wide integers
WideLess(a, b) ==
    IF a.neg /\ ~b.neg THEN TRUE
    ELSE IF ~a.neg /\ b.neg THEN FALSE
    ELSE IF a.neg THEN MagLess(b.mag, a.mag)
    ELSE MagLess(a.mag, b.mag)

WideLeq(a, b) == a = b \/ WideLess(a, b)

\* One step of long division of a magnitude by ten: <<quotient, remainder>>.
MagDivMod10(m) ==
    LET c3 == m[1]
        c2 == (c3 % 10) * Base + m[2]
        c1 == (c2 % 10) * Base + m[3]
        c0 == (c1 % 10) * Base + m[4]
    IN  << <<c3 \div 10, c2 \div 10, c1 \div 10, c0 \div 10>>, c0 % 10 >>

RECURSIVE MagToChars(_)
MagToChars(m) ==
    IF m = <<0, 0, 0, 0>> THEN <<>>
    ELSE LET qr == MagDivMod10(m)
         IN  MagToChars(qr[1]) \o <<DigitChars[qr[2] + 1]>>

\* i64::to_string / u64::to_string
WideToChars(a) ==
    IF a.mag = <<0, 0, 0, 0>> THEN <<"0">>
    ELSE (IF a.neg THEN <<"-">> ELSE <<>>) \o MagToChars(a.mag)

\* i8::MIN .. u64::MAX (core::num)
MinOf(T) ==
    CASE T = "i8"  -> Wide(TRUE, 0, 0, 0, 128)
      [] T = "i16" -> Wide(TRUE, 0, 0, 0, 32768)
      [] T = "i32" -> Wide(TRUE, 0, 0, 32768, 0)
      [] T = "i64" -> Wide(TRUE, 32768, 0, 0, 0)
      [] OTHER     -> Wide(FALSE, 0, 0, 0, 0)

MaxOf(T) ==
    CASE T = "i8"  -> Wide(FALSE, 0, 0, 0, 127)
      [] T = "i16" -> Wide(FALSE, 0, 0, 0, 32767)
      [] T = "i32" -> Wide(FALSE, 0, 0, 32767, 65535)
      [] T = "i64" -> Wide(FALSE, 32767, 65535, 65535, 65535)
      [] T = "u8"  -> Wide(FALSE, 0, 0, 0, 255)
      [] T = "u16" -> Wide(FALSE, 0, 0, 0, 65535)
      [] T = "u32" -> Wide(FALSE, 0, 0, 65535, 65535)
      [] T = "u64" -> Wide(FALSE, 65535, 65535, 65535, 65535)

InRange(T, a) == WideLeq(MinOf(T), a) /\ WideLeq(a, MaxOf(T))

----------------------------------------------------------------------------
(* f64 and DateTime<Utc>                                                   *)

\* An f64: NaN, an infinity, 1e300 ("huge": finite, beyond f32's range), a
\* finite number of tenths ("fin"), or the f32 nearest to a number of tenths
\* that no f32 holds exactly ("fin32": a finite value other than that number
\* of tenths).
F64(cls, neg, tenths) == [cls |-> cls, neg |-> neg, tenths |-> tenths]

F0 == F64("fin", FALSE, 0)

\* f64::to_string (Display): the shortest decimal form, no exponent.
f64_to_string(f) ==
    LET sign == IF f.neg THEN <<"-">> ELSE <<>>
    IN  CASE f.cls = "nan"  -> <<"N", "a", "N">>
          [] f.cls = "inf"  -> sign \o <<"i", "n", "f">>
          [] f.cls = "huge" -> sign \o <<"1">> \o [k \in 1..300 |-> "0"]
          [] f.cls = "fin" -> sign \o NatToChars(f.tenths \div 10)
                           \o (IF f.tenths % 10 = 0 THEN <<>>
                               ELSE <<".", DigitChars[(f.tenths % 10) + 1]>>)

f64_is_finite(f) == f.cls \in {"fin", "fin32", "huge"}

\* Whether an f32 holds the value exactly: of the numbers of tenths, the
\* multiples of 0.5 (of the size used here).
f32_holds(f) == f.cls \in {"inf", "nan"} \/ (f.cls = "fin" /\ f.tenths % 5 = 0)

\* `v as f32`: a finite value beyond f32's range becomes an infinity, any
\* other value the nearest f32.
as_f32(f) ==
    CASE f.cls = "huge" -> F64("inf", f.neg, 0)
      [] f.cls = "fin" /\ f.tenths % 5 # 0 -> F64("fin32", f.neg, f.tenths)
      [] OTHER -> f

\* A DateTime<Utc>: whole seconds since the epoch (floor) and the
\* nanoseconds within the second, as chrono holds it.
DateTime(secs, nanos) == [secs |-> secs, nanos |-> nanos]

T0 == DateTime(0, 0)

\* DateTime::timestamp_nanos_opt, for instants whose count fits.
timestamp_nanos(dt) == dt.secs * 1000000000 + dt.nanos

\* DateTime::timestamp_micros
timestamp_micros(dt) == dt.secs * 1000000 + (dt.nanos \div 1000)

\* Integer division that truncates (rounds toward zero), as Rust's `/`.
TruncDiv(n, d) == IF n >= 0 THEN n \div d ELSE -((-n) \div d)

\* Mutation of DateTime::timestamp_millis: derived from the nanosecond count
\* by a truncating division.
timestamp_millis_truncating(dt) == TruncDiv(timestamp_nanos(dt), 1000000)

\* DateTime::timestamp_millis
timestamp_millis(dt) == dt.secs * 1000 + (dt.nanos \div 1000000)

\* DateTime::timestamp
timestamp(dt) == dt.secs

\* TimestampPrecision::process_timestamp
process_timestamp(p, dt) ==
    CASE p = "Nanoseconds"  -> timestamp_nanos(dt)
      [] p = "Microseconds" -> timestamp_micros(dt)
      [] p = "Milliseconds" -> timestamp_millis(dt)
      [] p = "Seconds"      -> timestamp(dt)

Precisions == {"Nanoseconds", "Microseconds", "Milliseconds", "Seconds"}

----------------------------------------------------------------------------
(* PointValue.  Every value carries every payload field, the unused ones   *)
(* at a fixed default, so that any two values can be compared.             *)

PV(variant, f, n, b, s, t) ==
    [variant |-> variant, f |-> f, n |-> n, b |-> b, s |-> s, t |-> t]

PV_Null         == PV("Null", F0, W(0), FALSE, <<>>, T0)
PV_Float(f)     == PV("Float", f, W(0), FALSE, <<>>, T0)
PV_Integer(n)   == PV("Integer", F0, n, FALSE, <<>>, T0)
PV_UInteger(n)  == PV("UInteger", F0, n, FALSE, <<>>, T0)
PV_Boolean(b)   == PV("Boolean", F0, W(0), b, <<>>, T0)
PV_String(s)    == PV("String", F0, W(0), FALSE, s, T0)
PV_Timestamp(t) == PV("Timestamp", F0, W(0), FALSE, <<>>, t)

RECURSIVE replace(_, _, _)
\* str::replace of a one-byte pattern
replace(s, from, to) ==
    IF s = <<>> THEN <<>>
    ELSE (IF Head(s) = from THEN to ELSE <<Head(s)>>) \o replace(Tail(s), from, to)

\* PointValue::serialize
PointValue_serialize(v) ==
    CASE v.variant = "Null"      -> <<>>
      [] v.variant = "Float"     -> f64_to_string(v.f)
      [] v.variant = "Integer"   -> WideToChars(v.n) \o <<"i">>
      [] v.variant = "UInteger"  -> WideToChars(v.n) \o <<"u">>
      [] v.variant = "Boolean"   -> IF v.b THEN <<"t">> ELSE <<"f">>
      [] v.variant = "String"    ->
            <<"\"">> \o replace(replace(v.s, "\\", <<"\\", "\\">>),
                                "\"", <<"\\", "\"">>) \o <<"\"">>
      [] v.variant = "Timestamp" -> IntToChars(timestamp_nanos(v.t))


----------------------------------------------------------------------------
(* Encode and Decode (point_value.rs).  A typed Rust value is its type's   *)
(* name with the payload; "variant" is used by a PointValue only.          *)

TV(ty, variant, f, n, b, s, t) ==
    [ty |-> ty, variant |-> variant, f |-> f, n |-> n, b |-> b, s |-> s, t |-> t]

TV_Unit        == TV("()", "-", F0, W(0), FALSE, <<>>, T0)
TV_Float(ty, f) == TV(ty, "-", f, W(0), FALSE, <<>>, T0)
TV_Int(ty, n)  == TV(ty, "-", F0, n, FALSE, <<>>, T0)
TV_Bool(b)     == TV("bool", "-", F0, W(0), b, <<>>, T0)
TV_Text(ty, s) == TV(ty, "-", F0, W(0), FALSE, s, T0)
TV_DateTime(t) == TV("DateTime", "-", F0, W(0), FALSE, <<>>, t)
TV_PointValue(v) == TV("PointValue", v.variant, v.f, v.n, v.b, v.s, v.t)

\* impl Encode for ()
encode_unit(x) == PV_Null

\* impl Encode for f64
encode_f64(x) == PV_Float(x.f)

\* impl Encode for f32 (`self as f64` is exact)
encode_f32(x) == PV_Float(x.f)

\* impl Encode for i8 (`self as i64` keeps the value)
encode_i8(x) == PV_Integer(x.n)

\* impl Encode for i16
encode_i16(x) == PV_Integer(x.n)

\* impl Encode for i32
encode_i32(x) == PV_Integer(x.n)

\* impl Encode for i64
encode_i64(x) == PV_Integer(x.n)

\* Mutation of Encode for u8: the signed arm copied.
encode_u8_as_integer(x) == PV_Integer(x.n)

\* impl Encode for u8 (`self as u64` keeps the value)
encode_u8(x) == PV_UInteger(x.n)

\* impl Encode for u16
encode_u16(x) == PV_UInteger(x.n)

\* impl Encode for u32
encode_u32(x) == PV_UInteger(x.n)

\* impl Encode for u64
encode_u64(x) == PV_UInteger(x.n)

\* impl Encode for bool
encode_bool(x) == PV_Boolean(x.b)

\* impl Encode for &str
encode_str(x) == PV_String(x.s)

\* impl Encode for String
encode_String(x) == PV_String(x.s)

\* impl Encode for DateTime<Utc>
encode_DateTime(x) == PV_Timestamp(x.t)

\* impl Encode for PointValue (a clone)
encode_PointValue(x) == PV(x.variant, x.f, x.n, x.b, x.s, x.t)

\* x.encode(): the impl of x's type.
Encode(x) ==
    CASE x.ty = "()"         -> encode_unit(x)
      [] x.ty = "f64"        -> encode_f64(x)
      [] x.ty = "f32"        -> encode_f32(x)
      [] x.ty = "i8"         -> encode_i8(x)
      [] x.ty = "i16"        -> encode_i16(x)
      [] x.ty = "i32"        -> encode_i32(x)
      [] x.ty = "i64"        -> encode_i64(x)
      [] x.ty = "u8"         -> encode_u8(x)
      [] x.ty = "u16"        -> encode_u16(x)
      [] x.ty = "u32"        -> encode_u32(x)
      [] x.ty = "u64"        -> encode_u64(x)
      [] x.ty = "bool"       -> encode_bool(x)
      [] x.ty = "&str"       -> encode_str(x)
      [] x.ty = "String"     -> encode_String(x)
      [] x.ty = "DateTime"   -> encode_DateTime(x)
      [] x.ty = "PointValue" -> encode_PointValue(x)

\* The result of T::decode: Ok(val), Err(InvalidPointValueConversion(err)),
\* or "NoImpl" where the crate has no `impl Decode for T`.
DecodeOk(x)    == [status |-> "Ok", val |-> x, err |-> ""]
DecodeErr(msg) == [status |-> "Err", val |-> TV_Unit, err |-> msg]
DecodeNoImpl   == [status |-> "NoImpl", val |-> TV_Unit, err |-> ""]

\* impl Decode for f64
decode_f64(v) ==
    IF v.variant = "Float" THEN DecodeOk(TV_Float("f64", v.f))
    ELSE DecodeErr("PointValue is not a Float")

\* impl Decode for f32
decode_f32(v) ==
    IF v.variant = "Float"
    THEN LET f == as_f32(v.f)
         IN  IF f64_is_finite(v.f) # f64_is_finite(f)
             THEN DecodeErr("Value out of range for f32")
             ELSE DecodeOk(TV_Float("f32", f))
    ELSE DecodeErr("PointValue is not a Float")

\* Mutation of Decode for i8: the i64 arm copied, no range check.
decode_i8_unchecked(v) ==
    IF v.variant = "Integer" THEN DecodeOk(TV_Int("i8", v.n))
    ELSE DecodeErr("PointValue is not an Integer")

\* impl Decode for i8: i64::try_into
decode_i8(v) ==
    IF v.variant = "Integer"
    THEN IF InRange("i8", v.n) THEN DecodeOk(TV_Int("i8", v.n))
         ELSE DecodeErr("Value out of range for i8")
    ELSE DecodeErr("PointValue is not an Integer")

\* impl Decode for i16: i64::try_into
decode_i16(v) ==
    IF v.variant = "Integer"
    THEN IF InRange("i16", v.n) THEN DecodeOk(TV_Int("i16", v.n))
         ELSE DecodeErr("Value out of range for i16")
    ELSE DecodeErr("PointValue is not an Integer")

\* impl Decode for i32: i64::try_into
decode_i32(v) ==
    IF v.variant = "Integer"
    THEN IF InRange("i32", v.n) THEN DecodeOk(TV_Int("i32", v.n))
         ELSE DecodeErr("Value out of range for i32")
    ELSE DecodeErr("PointValue is not an Integer")

\* impl Decode for i64 (the message's rendering of the value is left out)
decode_i64(v) ==
    IF v.variant = "Integer" THEN DecodeOk(TV_Int("i64", v.n))
    ELSE DecodeErr("PointValue is not an Integer")

\* impl Decode for u8: u64::try_into
decode_u8(v) ==
    IF v.variant = "UInteger"
    THEN IF InRange("u8", v.n) THEN DecodeOk(TV_Int("u8", v.n))
         ELSE DecodeErr("Value out of range for u8")
    ELSE DecodeErr("PointValue is not a UInteger")

\* impl Decode for u16: u64::try_into
decode_u16(v) ==
    IF v.variant = "UInteger"
    THEN IF InRange("u16", v.n) THEN DecodeOk(TV_Int("u16", v.n))
         ELSE DecodeErr("Value out of range for u16")
    ELSE DecodeErr("PointValue is not a UInteger")

\* impl Decode for u32: u64::try_into
decode_u32(v) ==
    IF v.variant = "UInteger"
    THEN IF InRange("u32", v.n) THEN DecodeOk(TV_Int("u32", v.n))
         ELSE DecodeErr("Value out of range for u32")
    ELSE DecodeErr("PointValue is not a UInteger")

\* impl Decode for u64
decode_u64(v) ==
    IF v.variant = "UInteger" THEN DecodeOk(TV_Int("u64", v.n))
    ELSE DecodeErr("PointValue is not a UInteger")

\* impl Decode for bool
decode_bool(v) ==
    IF v.variant = "Boolean" THEN DecodeOk(TV_Bool(v.b))
    ELSE DecodeErr("PointValue is not a Boolean")

\* impl Decode for String
decode_String(v) ==
    IF v.variant = "String" THEN DecodeOk(TV_Text("String", v.s))
    ELSE DecodeErr("PointValue is not a String")

\* impl Decode for &str
decode_str(v) ==
    IF v.variant = "String" THEN DecodeOk(TV_Text("&str", v.s))
    ELSE DecodeErr("PointValue is not a String")

\* impl Decode for DateTime<Utc>
decode_DateTime(v) ==
    IF v.variant = "Timestamp" THEN DecodeOk(TV_DateTime(v.t))
    ELSE DecodeErr("PointValue is not a Timestamp")

\* T::decode(v): the impl of the target type T, where there is one.
Decode(T, v) ==
    CASE T = "f64"      -> decode_f64(v)
      [] T = "f32"      -> decode_f32(v)
      [] T = "i8"       -> decode_i8(v)
      [] T = "i16"      -> decode_i16(v)
      [] T = "i32"      -> decode_i32(v)
      [] T = "i64"      -> decode_i64(v)
      [] T = "u8"       -> decode_u8(v)
      [] T = "u16"      -> decode_u16(v)
      [] T = "u32"      -> decode_u32(v)
      [] T = "u64"      -> decode_u64(v)
      [] T = "bool"     -> decode_bool(v)
      [] T = "String"   -> decode_String(v)
      [] T = "&str"     -> decode_str(v)
      [] T = "DateTime" -> decode_DateTime(v)
      [] OTHER          -> DecodeNoImpl

\* PointValue::get_value::<T>: Ok(None) for Null, else Ok(Some(decode)).
\* [status, some, val, err]
PointValue_get_value(T, v) ==
    IF v.variant = "Null"
    THEN [status |-> "Ok", some |-> FALSE, val |-> TV_Unit, err |-> ""]
    ELSE LET d == Decode(T, v)
         IN  [status |-> d.status, some |-> d.status = "Ok",
              val |-> d.val, err |-> d.err]

----------------------------------------------------------------------------
(* The name validator and TagName (util.rs, tag_name.rs)                   *)

\* Mutation of validate_name: the check of the first byte left out.
validate_name_any_first(name) ==
    /\ name # <<>>
    /\ \A k \in DOMAIN name :
          is_ascii_alphanumeric(name[k]) \/ name[k] = "_" \/ name[k] = "-"

\* util::validate_name
validate_name(name) ==
    /\ ~(name = <<>>)
    /\ (IF name = <<>> THEN FALSE ELSE is_ascii_alphanumeric(name[1]))
    /\ \A k \in DOMAIN name :
          is_ascii_alphanumeric(name[k]) \/ name[k] = "_" \/ name[k] = "-"

\* Result<TagName, InfluxDBError>: TagName(name) or InvalidTagName(text).
TagNameOk(name)   == [ok |-> TRUE, name |-> name, err |-> "", text |-> <<>>]
TagNameErr(value) == [ok |-> FALSE, name |-> <<>>, err |-> "InvalidTagName",
                      text |-> value]

\* impl TryFrom<&str> for TagName
TagName_try_from_str(value) ==
    IF ~validate_name(value) THEN TagNameErr(value) ELSE TagNameOk(value)

\* impl TryFrom<String> for TagName
TagName_try_from_String(value) ==
    IF ~validate_name(value) THEN TagNameErr(value) ELSE TagNameOk(value)

\* impl TryFrom<&String> for TagName
TagName_try_from_String_ref(value) ==
    IF ~validate_name(value) THEN TagNameErr(value) ELSE TagNameOk(value)

\* impl AsRef<str> for TagName
TagName_as_ref(tag_name) == tag_name

----------------------------------------------------------------------------
(* Point and its line-protocol serializer (point.rs).  A map (TagMap, the  *)
(* field HashMap) is the sequence of its <<key, value>> entries in the     *)
(* order the map iterates them; keys are unique.                           *)

Point(measurement_name, tags, fields, time) ==
    [measurement_name |-> measurement_name, tags |-> tags,
     fields |-> fields, time |-> time]

RECURSIVE serialize_tags(_, _)
\* The two tag loops of Point::serialize: ",key=value" per entry.
serialize_tags(buf, tags) ==
    IF tags = <<>> THEN buf
    ELSE serialize_tags(buf \o <<",">> \o Head(tags)[1] \o <<"=">> \o Head(tags)[2],
                        Tail(tags))

RECURSIVE serialize_fields(_, _, _)
\* The field loop of Point::serialize, with its first_field flag.
serialize_fields(buf, fields, first_field) ==
    IF fields = <<>> THEN buf
    ELSE serialize_fields(
            (IF ~first_field THEN buf \o <<",">> ELSE buf)
                \o Head(fields)[1] \o <<"=">> \o PointValue_serialize(Head(fields)[2]),
            Tail(fields), FALSE)

\* Mutation of Point::serialize: the Point's own tags come first.
Point_serialize_own_tags_first(self, buf, p, dtags) ==
    LET b1 == buf \o self.measurement_name
        b2 == serialize_tags(b1, self.tags)
        b3 == serialize_tags(b2, dtags)
        b4 == b3 \o <<" ">>
        b5 == serialize_fields(b4, self.fields, TRUE)
        b6 == b5 \o <<" ">>
        b7 == b6 \o IntToChars(process_timestamp(p, self.time))
    IN  b7 \o <<"\n">>

\* Mutation of Point::serialize: a point without fields writes no line.
Point_serialize_skips_fieldless(self, buf, p, dtags) ==
    LET b1 == buf \o self.measurement_name
        b2 == serialize_tags(b1, dtags)
        b3 == serialize_tags(b2, self.tags)
        b4 == b3 \o <<" ">>
        b5 == serialize_fields(b4, self.fields, TRUE)
        b6 == b5 \o <<" ">>
        b7 == b6 \o IntToChars(process_timestamp(p, self.time))
    IN  IF self.fields = <<>> THEN buf ELSE b7 \o <<"\n">>

\* Point::serialize: what buf holds afterwards.
Point_serialize(self, buf, p, dtags) ==
    LET b1 == buf \o self.measurement_name
        b2 == serialize_tags(b1, dtags)
        b3 == serialize_tags(b2, self.tags)
        b4 == b3 \o <<" ">>
        b5 == serialize_fields(b4, self.fields, TRUE)
        b6 == b5 \o <<" ">>
        b7 == b6 \o IntToChars(process_timestamp(p, self.time))
    IN  b7 \o <<"\n">>

----------------------------------------------------------------------------
(* Point's setters (point.rs).  Inserting into a map replaces the value of *)
(* a key it holds and appends the entry otherwise.                         *)

RECURSIVE map_insert(_, _, _)
\* HashMap::insert
map_insert(m, key, value) ==
    IF m = <<>> THEN <<<<key, value>>>>
    ELSE IF Head(m)[1] = key THEN <<<<key, value>>>> \o Tail(m)
    ELSE <<Head(m)>> \o map_insert(Tail(m), key, value)

\* Point::default
Point_default == Point(<<>>, <<>>, <<>>, T0)

\* Point::set_measurement
Point_set_measurement(self, name) == [self EXCEPT !.measurement_name = name]

\* Mutation of Point::set_timestamp: the time is left as it was.
Point_set_timestamp_keeps_time(self, t) == self

\* Point::set_timestamp
Point_set_timestamp(self, t) == [self EXCEPT !.time = t]

\* Point::set_tag: the new Point; on an invalid name the expect panics.
Point_set_tag(self, key, value) ==
    LET k == TagName_try_from_String_ref(key)
    IN  IF k.ok
        THEN [panic |-> FALSE,
              point |-> [self EXCEPT !.tags = map_insert(self.tags, k.name, value)]]
        ELSE [panic |-> TRUE, point |-> self]

\* Mutation of Point::set_field: the key is inserted unchecked.
Point_set_field_unchecked(self, key, value) ==
    [self EXCEPT !.fields = map_insert(self.fields, key, Encode(TV_PointValue(value)))]

\* Point::set_field, with a PointValue as the value
Point_set_field(self, key, value) ==
    IF validate_name(key)
    THEN [self EXCEPT !.fields =
            map_insert(self.fields, key, Encode(TV_PointValue(value)))]
    ELSE self

----------------------------------------------------------------------------
(* The columnar decoder (point_stream.rs).  A RecordBatch is its schema's  *)
(* fields, one array of cells per field, and its row count; a cell is a    *)
(* validity flag with the physical value.                                  *)

\* A schema field: its name, its physical type and the value of its
\* "iox::column::type" metadata ("" when it has none).
Field(name, data_type, metadata) ==
    [name |-> name, data_type |-> data_type, metadata |-> metadata]

\* A cell: null, or a bool b, a float f, an integer n, a text s, or a
\* timestamp count ts in the column's unit.
Cell(null, b, f, n, s, ts) ==
    [null |-> null, b |-> b, f |-> f, n |-> n, s |-> s, ts |-> ts]

NullCell     == Cell(TRUE, FALSE, F0, W(0), <<>>, 0)
BoolCell(b)  == Cell(FALSE, b, F0, W(0), <<>>, 0)
FloatCell(f) == Cell(FALSE, FALSE, f, W(0), <<>>, 0)
IntCell(n)   == Cell(FALSE, FALSE, F0, n, <<>>, 0)
TextCell(t)  == Cell(FALSE, FALSE, F0, W(0), t, 0)
TimeCell(ts) == Cell(FALSE, FALSE, F0, W(0), <<>>, ts)

RecordBatch(fields, columns, num_rows) ==
    [fields |-> fields, columns |-> columns, num_rows |-> num_rows]

\* impl From<&str> for ColumnType, on the "iox::column::type" metadata
\* ("" when the field has none)
ColumnType_from(meta) ==
    CASE meta = "iox::column_type::field::integer"  -> "Integer"
      [] meta = "iox::column_type::field::uinteger" -> "UInteger"
      [] meta = "iox::column_type::field::float"    -> "Float"
      [] meta = "iox::column_type::field::string"   -> "String"
      [] meta = "iox::column_type::field::boolean"  -> "Boolean"
      [] meta = "iox::column_type::tag"             -> "Tag"
      [] meta = "iox::column_type::timestamp"       -> "Timestamp"
      [] OTHER                                      -> "Unknown"

\* InfluxDBError: the variant, the text and the detail it carries.
Error(variant, text, detail) ==
    [variant |-> variant, text |-> text, detail |-> detail]

NoError == Error("none", <<>>, "")

\* DateTime::from_timestamp_secs / _millis / _micros / _nanos, on counts
\* within chrono's range
from_timestamp_secs(v)   == DateTime(v, 0)
from_timestamp_millis(v) == DateTime(v \div 1000, (v % 1000) * 1000000)
from_timestamp_micros(v) == DateTime(v \div 1000000, (v % 1000000) * 1000)
from_timestamp_nanos(v)  == DateTime(v \div 1000000000, v % 1000000000)

ValueOk(v)   == [status |-> "Ok", val |-> v, err |-> NoError]
\* Mutation of the Err outcome: the extraction's error is taken as a Null.
ValueErr_as_null(e) == ValueOk(PV_Null)
ValueErr(e)  == [status |-> "Err", val |-> PV_Null, err |-> e]
ValuePanic   == [status |-> "Panic", val |-> PV_Null, err |-> NoError]

\* get_arrow_value(array, field, row).  The UInt64 arm casts the array to
\* an Int64Array: as_primitive_array panics on the UInt64Array it is given.
get_arrow_value(array, field, row) ==
    LET cell == array[row + 1]
        dt   == field.data_type
    IN  CASE dt = "Null"    -> ValueOk(PV_Null)
          [] dt = "Boolean" ->
                IF cell.null THEN ValueOk(PV_Null) ELSE ValueOk(PV_Boolean(cell.b))
          [] dt = "Float64" ->
                IF cell.null THEN ValueOk(PV_Null) ELSE ValueOk(PV_Float(cell.f))
          [] dt = "Int64"   ->
                IF cell.null THEN ValueOk(PV_Null) ELSE ValueOk(PV_Integer(cell.n))
          [] dt = "UInt64"  -> ValuePanic
          [] dt = "Utf8"    ->
                IF cell.null THEN ValueOk(PV_Null) ELSE ValueOk(PV_String(cell.s))
          [] dt = "Timestamp(Second)" ->
                IF cell.null THEN ValueOk(PV_Null)
                ELSE ValueOk(PV_Timestamp(from_timestamp_secs(cell.ts)))
          [] dt = "Timestamp(Millisecond)" ->
                IF cell.null THEN ValueOk(PV_Null)
                ELSE ValueOk(PV_Timestamp(from_timestamp_millis(cell.ts)))
          [] dt = "Timestamp(Microsecond)" ->
                IF cell.null THEN ValueOk(PV_Null)
                ELSE ValueOk(PV_Timestamp(from_timestamp_micros(cell.ts)))
          [] dt = "Timestamp(Nanosecond)" ->
                IF cell.null THEN ValueOk(PV_Null)
                ELSE ValueOk(PV_Timestamp(from_timestamp_nanos(cell.ts)))
          [] OTHER -> ValueErr(Error("InvalidPointValue", field.name, dt))

IsTimestampType(dt) ==
    dt \in {"Timestamp(Second)", "Timestamp(Millisecond)",
            "Timestamp(Microsecond)", "Timestamp(Nanosecond)"}

NameMeasurement == <<"m", "e", "a", "s", "u", "r", "e", "m", "e", "n", "t">>

NameIoxMeasurement == <<"i", "o", "x", ":", ":">> \o NameMeasurement

NameTime == <<"t", "i", "m", "e">>

PointOk(point) == [status |-> "Ok", point |-> point, err |-> NoError]
PointErr(e)    == [status |-> "Err", point |-> Point_default, err |-> e]
PointPanic     == [status |-> "Panic", point |-> Point_default, err |-> NoError]

ConversionError(msg) == Error("InvalidPointValueConversion", <<>>, msg)

\* The body of get_point's loop for one column after its value is read:
\* the match on the column's classification.
get_point_classified(point, field, value) ==
    LET column_type == ColumnType_from(field.metadata)
        name == field.name
        \* if let Some(v) = value.get_value()? { point.set_timestamp(v); }
        SetTimestamp(g) ==
            IF g.status # "Ok" THEN PointErr(ConversionError(g.err))
            ELSE IF g.some THEN PointOk(Point_set_timestamp(point, g.val.t))
            ELSE PointOk(point)
        Tagged(t) == IF t.panic THEN PointPanic ELSE PointOk(t.point)
        \* if let Some(v) = value.get_value()? { point.set_tag(name, v); }
        SetTag(g) ==
            IF g.status # "Ok" THEN PointErr(ConversionError(g.err))
            ELSE IF g.some THEN Tagged(Point_set_tag(point, name, g.val.s))
            ELSE PointOk(point)
    IN  CASE column_type = "Unknown" ->
                IF IsTimestampType(field.data_type) /\ name = NameTime
                THEN SetTimestamp(PointValue_get_value("DateTime", value))
                ELSE PointOk(Point_set_field(point, name, value))
          [] column_type = "Tag" ->
                SetTag(PointValue_get_value("&str", value))
          [] column_type = "Timestamp" ->
                SetTimestamp(PointValue_get_value("DateTime", value))
          [] OTHER -> PointOk(Point_set_field(point, name, value))

\* Mutation of get_point's loop body: the measurement column is not
\* skipped after it set the measurement.
get_point_column_no_continue(point, batch, row, k) ==
    LET field == batch.fields[k]
        SetMeasurement(value, g) ==
            IF g.status # "Ok" THEN PointErr(ConversionError(g.err))
            ELSE IF g.some
            THEN get_point_classified(Point_set_measurement(point, g.val.s),
                                      field, value)
            ELSE get_point_classified(point, field, value)
        WithValue(v) ==
            IF v.status = "Panic" THEN PointPanic
            ELSE IF v.status = "Err" THEN PointErr(v.err)
            ELSE IF field.data_type = "Utf8"
                    /\ (field.name = NameMeasurement \/ field.name = NameIoxMeasurement)
            THEN SetMeasurement(v.val, PointValue_get_value("&str", v.val))
            ELSE get_point_classified(point, field, v.val)
    IN  WithValue(get_arrow_value(batch.columns[k], field, row))

\* One iteration of get_point's loop, for column k (from 1).
get_point_column(point, batch, row, k) ==
    LET field == batch.fields[k]
        Classified(value) == get_point_classified(point, field, value)
        \* if let Some(v) = value.get_value()? { set_measurement; continue; }
        SetMeasurement(value, g) ==
            IF g.status # "Ok" THEN PointErr(ConversionError(g.err))
            ELSE IF g.some THEN PointOk(Point_set_measurement(point, g.val.s))
            ELSE Classified(value)
        WithValue(v) ==
            IF v.status = "Panic" THEN PointPanic
            ELSE IF v.status = "Err" THEN PointErr(v.err)
            ELSE IF field.data_type = "Utf8"
                    /\ (field.name = NameMeasurement \/ field.name = NameIoxMeasurement)
            THEN SetMeasurement(v.val, PointValue_get_value("&str", v.val))
            ELSE Classified(v.val)
    IN  WithValue(get_arrow_value(batch.columns[k], field, row))

RECURSIVE get_point_from(_, _, _, _)
\* get_point's loop from column k on.
get_point_from(point, batch, row, k) ==
    LET Continue(r) == IF r.status = "Ok"
                       THEN get_point_from(r.point, batch, row, k + 1)
                       ELSE r
    IN  IF k > Len(batch.fields) THEN PointOk(point)
        ELSE Continue(get_point_column(point, batch, row, k))

\* get_point(batch, row): Ok(point), Err(error), or a panic.
get_point(batch, row) == get_point_from(Point_default, batch, row, 1)

----------------------------------------------------------------------------
(* PointStream (point_stream.rs).  The underlying source is the items it   *)
(* is still to deliver and the number of its next events (an item, or the  *)
(* end after the last item) that are ready; it is pending when none is.    *)

NoBatch == [some |-> FALSE, batch |-> RecordBatch(<<>>, <<>>, 0)]

SomeBatch(batch) == [some |-> TRUE, batch |-> batch]

BatchItem(batch) == [kind |-> "batch", batch |-> batch]

ErrorItem == [kind |-> "error", batch |-> RecordBatch(<<>>, <<>>, 0)]

\* Some(Err(e)) with e the source's FlightError turned into an InfluxDBError
FlightErrorElement == PointErr(Error("FlightError", <<>>, ""))

\* PointStream::new
PointStream_new(src) == [inner |-> src, batch_buffer |-> NoBatch, i |-> 0, len |-> 0]

PollOut(kind, res) == [kind |-> kind, res |-> res]

\* Mutation of poll_next: the cursor moves on by two.
RECURSIVE poll_next_skips(_)
poll_next_skips(self) ==
    LET Reset(s) == IF s.batch_buffer.some
                    THEN [s EXCEPT !.batch_buffer = NoBatch, !.i = 0, !.len = 0]
                    ELSE s
        Took(s)  == [s EXCEPT !.inner.items = Tail(s.inner.items),
                              !.inner.avail = s.inner.avail - 1]
        Drain(result) ==
            IF result.status = "Panic"
            THEN [self |-> self, out |-> PollOut("Panic", PointPanic)]
            ELSE [self |-> [self EXCEPT !.i = self.i + 2],
                  out |-> PollOut("Some", result)]
        Pull(s1) ==
            IF s1.inner.avail = 0
            THEN [self |-> s1, out |-> PollOut("Pending", PointPanic)]
            ELSE IF s1.inner.items = <<>>
            THEN [self |-> s1, out |-> PollOut("None", PointPanic)]
            ELSE IF Head(s1.inner.items).kind = "error"
            THEN [self |-> Took(s1), out |-> PollOut("Some", FlightErrorElement)]
            ELSE poll_next_skips([Took(s1) EXCEPT
                            !.len = Head(s1.inner.items).batch.num_rows,
                            !.batch_buffer = SomeBatch(Head(s1.inner.items).batch)])
    IN  IF self.batch_buffer.some /\ self.i < self.len
        THEN Drain(get_point(self.batch_buffer.batch, self.i))
        ELSE Pull(Reset(self))

\* Mutation of poll_next: a row that fails to decode drops the batch.
RECURSIVE poll_next_error_drops_batch(_)
poll_next_error_drops_batch(self) ==
    LET Reset(s) == IF s.batch_buffer.some
                    THEN [s EXCEPT !.batch_buffer = NoBatch, !.i = 0, !.len = 0]
                    ELSE s
        Took(s)  == [s EXCEPT !.inner.items = Tail(s.inner.items),
                              !.inner.avail = s.inner.avail - 1]
        Drain(result) ==
            IF result.status = "Panic"
            THEN [self |-> self, out |-> PollOut("Panic", PointPanic)]
            ELSE IF result.status = "Err"
            THEN [self |-> [self EXCEPT !.batch_buffer = NoBatch, !.i = 0, !.len = 0],
                  out |-> PollOut("Some", result)]
            ELSE [self |-> [self EXCEPT !.i = self.i + 1],
                  out |-> PollOut("Some", result)]
        Pull(s1) ==
            IF s1.inner.avail = 0
            THEN [self |-> s1, out |-> PollOut("Pending", PointPanic)]
            ELSE IF s1.inner.items = <<>>
            THEN [self |-> s1, out |-> PollOut("None", PointPanic)]
            ELSE IF Head(s1.inner.items).kind = "error"
            THEN [self |-> Took(s1), out |-> PollOut("Some", FlightErrorElement)]
            ELSE poll_next_error_drops_batch([Took(s1) EXCEPT
                            !.len = Head(s1.inner.items).batch.num_rows,
                            !.batch_buffer = SomeBatch(Head(s1.inner.items).batch)])
    IN  IF self.batch_buffer.some /\ self.i < self.len
        THEN Drain(get_point(self.batch_buffer.batch, self.i))
        ELSE Pull(Reset(self))

\* Mutation of poll_next: dropping the exhausted batch leaves the cursor.
RECURSIVE poll_next_keeps_cursor(_)
poll_next_keeps_cursor(self) ==
    LET Reset(s) == IF s.batch_buffer.some
                    THEN [s EXCEPT !.batch_buffer = NoBatch, !.len = 0]
                    ELSE s
        Took(s)  == [s EXCEPT !.inner.items = Tail(s.inner.items),
                              !.inner.avail = s.inner.avail - 1]
        Drain(result) ==
            IF result.status = "Panic"
            THEN [self |-> self, out |-> PollOut("Panic", PointPanic)]
            ELSE [self |-> [self EXCEPT !.i = self.i + 1],
                  out |-> PollOut("Some", result)]
        Pull(s1) ==
            IF s1.inner.avail = 0
            THEN [self |-> s1, out |-> PollOut("Pending", PointPanic)]
            ELSE IF s1.inner.items = <<>>
            THEN [self |-> s1, out |-> PollOut("None", PointPanic)]
            ELSE IF Head(s1.inner.items).kind = "error"
            THEN [self |-> Took(s1), out |-> PollOut("Some", FlightErrorElement)]
            ELSE poll_next_keeps_cursor([Took(s1) EXCEPT
                            !.len = Head(s1.inner.items).batch.num_rows,
                            !.batch_buffer = SomeBatch(Head(s1.inner.items).batch)])
    IN  IF self.batch_buffer.some /\ self.i < self.len
        THEN Drain(get_point(self.batch_buffer.batch, self.i))
        ELSE Pull(Reset(self))

\* Mutation of poll_next: an error item of the source ends the source.
RECURSIVE poll_next_error_ends_stream(_)
poll_next_error_ends_stream(self) ==
    LET Reset(s) == IF s.batch_buffer.some
                    THEN [s EXCEPT !.batch_buffer = NoBatch, !.i = 0, !.len = 0]
                    ELSE s
        Took(s)  == [s EXCEPT !.inner.items = Tail(s.inner.items),
                              !.inner.avail = s.inner.avail - 1]
        Drain(result) ==
            IF result.status = "Panic"
            THEN [self |-> self, out |-> PollOut("Panic", PointPanic)]
            ELSE [self |-> [self EXCEPT !.i = self.i + 1],
                  out |-> PollOut("Some", result)]
        Pull(s1) ==
            IF s1.inner.avail = 0
            THEN [self |-> s1, out |-> PollOut("Pending", PointPanic)]
            ELSE IF s1.inner.items = <<>>
            THEN [self |-> s1, out |-> PollOut("None", PointPanic)]
            ELSE IF Head(s1.inner.items).kind = "error"
            THEN [self |-> [s1 EXCEPT !.inner.items = <<>>, !.inner.avail = 1],
                  out |-> PollOut("Some", FlightErrorElement)]
            ELSE poll_next_error_ends_stream([Took(s1) EXCEPT
                            !.len = Head(s1.inner.items).batch.num_rows,
                            !.batch_buffer = SomeBatch(Head(s1.inner.items).batch)])
    IN  IF self.batch_buffer.some /\ self.i < self.len
        THEN Drain(get_point(self.batch_buffer.batch, self.i))
        ELSE Pull(Reset(self))

------------------------------------------------------------

\* Mutation of poll_next: the source is pulled with the exhausted batch kept.
RECURSIVE poll_next_pulls_unreset(_)
poll_next_pulls_unreset(self) ==
    LET Reset(s) == IF s.batch_buffer.some
                    THEN [s EXCEPT !.batch_buffer = NoBatch, !.i = 0, !.len = 0]
                    ELSE s
        Took(s)  == [s EXCEPT !.inner.items = Tail(s.inner.items),
                              !.inner.avail = s.inner.avail - 1]
        Drain(result) ==
            IF result.status = "Panic"
            THEN [self |-> self, out |-> PollOut("Panic", PointPanic)]
            ELSE [self |-> [self EXCEPT !.i = self.i + 1],
                  out |-> PollOut("Some", result)]
        Pull(s1) ==
            IF s1.inner.avail = 0
            THEN [self |-> s1, out |-> PollOut("Pending", PointPanic)]
            ELSE IF s1.inner.items = <<>>
            THEN [self |-> s1, out |-> PollOut("None", PointPanic)]
            ELSE IF Head(s1.inner.items).kind = "error"
            THEN [self |-> Took(s1), out |-> PollOut("Some", FlightErrorElement)]
            ELSE poll_next_pulls_unreset([Took(s1) EXCEPT
                            !.len = Head(s1.inner.items).batch.num_rows,
                            !.batch_buffer = SomeBatch(Head(s1.inner.items).batch)])
    IN  IF self.batch_buffer.some /\ self.i < self.len
        THEN Drain(get_point(self.batch_buffer.batch, self.i))
        ELSE Pull(self)

\* PointStream::poll_next: the stream afterwards and what the poll returns:
\* Pending, Ready(None), Ready(Some(result)), or a panic out of get_point
\* (which leaves the cursor where it was).  One evaluation is one turn of
\* the loop; the recursion is its next turn.
RECURSIVE poll_next(_)
poll_next(self) ==
    LET Reset(s) == IF s.batch_buffer.some
                    THEN [s EXCEPT !.batch_buffer = NoBatch, !.i = 0, !.len = 0]
                    ELSE s
        Took(s)  == [s EXCEPT !.inner.items = Tail(s.inner.items),
                              !.inner.avail = s.inner.avail - 1]
        Drain(result) ==
            IF result.status = "Panic"
            THEN [self |-> self, out |-> PollOut("Panic", PointPanic)]
            ELSE [self |-> [self EXCEPT !.i = self.i + 1],
                  out |-> PollOut("Some", result)]
        Pull(s1) ==
            IF s1.inner.avail = 0
            THEN [self |-> s1, out |-> PollOut("Pending", PointPanic)]
            ELSE IF s1.inner.items = <<>>
            THEN [self |-> s1, out |-> PollOut("None", PointPanic)]
            ELSE IF Head(s1.inner.items).kind = "error"
            THEN [self |-> Took(s1), out |-> PollOut("Some", FlightErrorElement)]
            ELSE poll_next([Took(s1) EXCEPT
                            !.len = Head(s1.inner.items).batch.num_rows,
                            !.batch_buffer = SomeBatch(Head(s1.inner.items).batch)])
    IN  IF self.batch_buffer.some /\ self.i < self.len
        THEN Drain(get_point(self.batch_buffer.batch, self.i))
        ELSE Pull(Reset(self))

----------------------------------------------------------------------------
(* Batcher (batch_writer.rs)                                               *)

\* The sealing thresholds.  The program's values are 10_000 lines and
\* 10 * 1024 * 1024 bytes; the model scales both down so that a few points
\* reach them, and every property below is stated in terms of the names.
MAX_LINES == 4

MAX_BYTES == 80

\* Batcher::new
Batcher_new(p, dtags) ==
    [buffers |-> <<>>, current_buffer |-> <<>>, current_lines |-> 0,
     precision |-> p, default_tags |-> dtags]

\* Mutation of Batcher::add_point: the line threshold compared with > .
Batcher_add_point_late_seal(self, point) ==
    LET buf   == Point_serialize(point, self.current_buffer, self.precision,
                                 self.default_tags)
        lines == self.current_lines + 1
    IN  IF lines > MAX_LINES \/ Len(buf) >= MAX_BYTES
        THEN [self EXCEPT !.buffers = Append(self.buffers, buf),
                          !.current_buffer = <<>>,
                          !.current_lines = 0]
        ELSE [self EXCEPT !.current_buffer = buf, !.current_lines = lines]

\* Mutation of Batcher::add_point: a buffer that reached the byte threshold
\* is cut at the threshold, the rest staying in the open buffer.
Batcher_add_point_split(self, point) ==
    LET buf   == Point_serialize(point, self.current_buffer, self.precision,
                                 self.default_tags)
        lines == self.current_lines + 1
    IN  IF Len(buf) >= MAX_BYTES
        THEN [self EXCEPT !.buffers = Append(self.buffers, SubSeq(buf, 1, MAX_BYTES)),
                          !.current_buffer = SubSeq(buf, MAX_BYTES + 1, Len(buf)),
                          !.current_lines = 0]
        ELSE IF lines >= MAX_LINES
        THEN [self EXCEPT !.buffers = Append(self.buffers, buf),
                          !.current_buffer = <<>>,
                          !.current_lines = 0]
        ELSE [self EXCEPT !.current_buffer = buf, !.current_lines = lines]

\* Mutation of Batcher::add_point: a seal leaves the line counter as it is.
Batcher_add_point_stale_counter(self, point) ==
    LET buf   == Point_serialize(point, self.current_buffer, self.precision,
                                 self.default_tags)
        lines == self.current_lines + 1
    IN  IF lines >= MAX_LINES \/ Len(buf) >= MAX_BYTES
        THEN [self EXCEPT !.buffers = Append(self.buffers, buf),
                          !.current_buffer = <<>>,
                          !.current_lines = lines]
        ELSE [self EXCEPT !.current_buffer = buf, !.current_lines = lines]

\* Batcher::add_point (it has no failing path: the result is always Ok).
Batcher_add_point(self, point) ==
    LET buf   == Point_serialize(point, self.current_buffer, self.precision,
                                 self.default_tags)
        lines == self.current_lines + 1
    IN  IF lines >= MAX_LINES \/ Len(buf) >= MAX_BYTES
        THEN [self EXCEPT !.buffers = Append(self.buffers, buf),
                          !.current_buffer = <<>>,
                          !.current_lines = 0]
        ELSE [self EXCEPT !.current_buffer = buf, !.current_lines = lines]

RECURSIVE Batcher_add_points(_, _)
\* Batcher::add_points: add_point for each point, in order.
Batcher_add_points(self, points) ==
    IF points = <<>> THEN self
    ELSE Batcher_add_points(Batcher_add_point(self, Head(points)), Tail(points))

\* Mutation of Batcher::finalize: the open buffer is not sealed.
Batcher_finalize_drops_open(self) == self.buffers

\* Mutation of Batcher::finalize: the open buffer is sealed even if empty.
Batcher_finalize_seals_empty(self) == Append(self.buffers, self.current_buffer)

\* Batcher::finalize: the buffers the returned iterator yields, in order.
Batcher_finalize(self) ==
    IF self.current_buffer # <<>>
    THEN Append(self.buffers, self.current_buffer)
    ELSE self.buffers


----------------------------------------------------------------------------
(* The write path's inputs                                                 *)

\* The most points one Batcher is given.
MaxPoints == 6

\* Three points in a row make scenario A: measurement cpu, field value=2.5.
PointCpu ==
    Point(<<"c", "p", "u">>, <<>>,
          << <<<<"v", "a", "l", "u", "e">>, PV_Float(F64("fin", FALSE, 25))>> >>,
          DateTime(0, 7))

\* Two own tags, three fields (a negative integer, a boolean, a string with
\* a quote and a backslash to escape), an instant before the epoch.
PointMem ==
    Point(<<"m", "e", "m">>,
          << <<<<"h", "o", "s", "t">>, <<"a">>>>, <<<<"r", "-", "1">>, <<"b">>>> >>,
          << <<<<"u", "s", "e", "d">>, PV_Integer(W(-7))>>,
             <<<<"o", "k">>, PV_Boolean(TRUE)>>,
             <<<<"n", "o", "t", "e">>, PV_String(<<"a", "\"", "b", "\\">>)>> >>,
          DateTime(-1, 999999000))

\* An unsigned integer beyond 32 bits, a null and a timestamp field.
PointNul ==
    Point(<<"n">>, <<>>,
          << <<<<"u">>, PV_UInteger(Wide(FALSE, 0, 1, 0, 0))>>,
             <<<<"z">>, PV_Null>>,
             <<<<"t", "s">>, PV_Timestamp(DateTime(0, 5))>> >>,
          DateTime(1, 500000000))

BatchPoints == {PointCpu, PointMem, PointNul}

EnvProd == << <<<<"e", "n", "v">>, <<"p", "r", "o", "d">>>> >>

DefaultTagSets == {<<>>, EnvProd}

----------------------------------------------------------------------------
(* States in which a component takes no part                               *)

IdleBatcher ==
    /\ buffers = <<>> /\ current_buffer = <<>> /\ current_lines = 0
    /\ precision = "Nanoseconds" /\ default_tags = <<>>
    /\ added = <<>> /\ phase = "idle" /\ yielded = <<>>

IdleStream ==
    /\ inner = [items |-> <<>>, avail |-> 0]
    /\ batch_buffer = NoBatch
    /\ i = 0 /\ len = 0
    /\ source_all = <<>> /\ produced = <<>> /\ last_poll = "none"

IdlePure == fn = "none" /\ arg = <<>> /\ ret = <<>> /\ pc = "idle"

----------------------------------------------------------------------------
(* The Batcher's operations                                                *)

\* The Batcher as the code's struct.
BatcherSelf ==
    [buffers |-> buffers, current_buffer |-> current_buffer,
     current_lines |-> current_lines, precision |-> precision,
     default_tags |-> default_tags]

\* Batcher::new with a precision and a default tag map.
InitBatcher ==
    /\ \E p \in Precisions, dtags \in DefaultTagSets :
          LET self == Batcher_new(p, dtags)
          IN  /\ buffers = self.buffers
              /\ current_buffer = self.current_buffer
              /\ current_lines = self.current_lines
              /\ precision = self.precision
              /\ default_tags = self.default_tags
    /\ added = <<>> /\ phase = "open" /\ yielded = <<>>
    /\ IdleStream /\ IdlePure

StoreBatcher(self) ==
    /\ buffers' = self.buffers
    /\ current_buffer' = self.current_buffer
    /\ current_lines' = self.current_lines
    /\ precision' = self.precision
    /\ default_tags' = self.default_tags

\* batcher.add_point(point)
AddPoint ==
    /\ phase = "open"
    /\ Len(added) < MaxPoints
    /\ \E point \in BatchPoints :
          /\ StoreBatcher(Batcher_add_point(BatcherSelf, point))
          /\ added' = Append(added, point)
    /\ UNCHANGED <<phase, yielded, streamVars, pureVars>>

\* batcher.add_points(points), with two points
AddPoints ==
    /\ phase = "open"
    /\ Len(added) + 2 <= MaxPoints
    /\ \E p1 \in BatchPoints, p2 \in BatchPoints :
          /\ StoreBatcher(Batcher_add_points(BatcherSelf, <<p1, p2>>))
          /\ added' = added \o <<p1, p2>>
    /\ UNCHANGED <<phase, yielded, streamVars, pureVars>>

\* batcher.finalize(): the Batcher is consumed, its buffers are yielded.
Finalize ==
    /\ phase = "open"
    /\ yielded' = Batcher_finalize(BatcherSelf)
    /\ buffers' = yielded'
    /\ current_buffer' = <<>>
    /\ phase' = "finalized"
    /\ UNCHANGED <<current_lines, precision, default_tags, added,
                   streamVars, pureVars>>

NextBatcher == AddPoint \/ AddPoints \/ Finalize

SpecBatcher == InitBatcher /\ [][NextBatcher]_vars


----------------------------------------------------------------------------
(* Properties of the write path                                            *)

\* Point.serialize of one point into an empty buffer, with the Batcher's
\* precision and default tags.
SerializedPoint(point) == Point_serialize(point, <<>>, precision, default_tags)

\* The serializations of added[lo+1 .. hi], concatenated.
SerializedRun(lo, hi) ==
    Concat([k \in 1..(hi - lo) |-> SerializedPoint(added[lo + k])])

\* The number of newline bytes of a buffer (no text of the inputs holds one).
LineCount(buf) == Cardinality({k \in DOMAIN buf : buf[k] = "\n"})

\* C1: after finalize, the yielded buffers, concatenated in the order
\* yielded, are the concatenation of Point.serialize of the added points in
\* the order added: no point is lost, duplicated or reordered.
C1_ConcatIsSerializedPoints ==
    phase = "finalized" => Concat(yielded) = SerializedRun(0, Len(added))

\* C1's case: several buffers were yielded, one sealed while adding and the
\* open one sealed by finalize.
C1_Witness ==
    /\ phase = "finalized"
    /\ Len(yielded) >= 2
    /\ LineCount(yielded[Len(yielded)]) < MAX_LINES
    /\ Len(yielded[Len(yielded)]) < MAX_BYTES

\* C3: every yielded buffer holds at least 1 and at most MAX_LINES lines, no
\* yielded buffer is empty, and with no point added nothing is yielded.
C3_BufferLineBounds ==
    phase = "finalized" =>
        /\ \A b \in DOMAIN yielded :
              /\ yielded[b] # <<>>
              /\ LineCount(yielded[b]) >= 1
              /\ LineCount(yielded[b]) <= MAX_LINES
        /\ (added = <<>> => yielded = <<>>)

\* C3's case: a buffer sealed by the line threshold is yielded, and finalize
\* found the open buffer empty.
C3_Witness ==
    /\ phase = "finalized"
    /\ Len(yielded) >= 1
    /\ LineCount(yielded[Len(yielded)]) = MAX_LINES
    /\ Len(yielded[Len(yielded)]) < MAX_BYTES
    /\ current_lines = 0

RECURSIVE AreRunsFrom(_, _)
\* bufs are the serializations of consecutive non-empty runs of the added
\* points, the first run starting after added[start].
AreRunsFrom(bufs, start) ==
    \/ bufs = <<>>
    \/ \E k \in 1..(Len(added) - start) :
          /\ Head(bufs) = SerializedRun(start, start + k)
          /\ AreRunsFrom(Tail(bufs), start + k)

\* C4: every sealed buffer (sealed by add_point or by finalize) is the
\* concatenation of the complete serializations of a contiguous run of the
\* added points, and ends with the newline of its last point.
C4_SealNeverSplitsPoint ==
    /\ AreRunsFrom(buffers, 0)
    /\ \A b \in DOMAIN buffers :
          buffers[b] # <<>> /\ buffers[b][Len(buffers[b])] = "\n"

\* C4's case: add_point sealed a buffer on the byte threshold, which the
\* last point crossed, and went on with a second buffer.
C4_Witness ==
    /\ phase = "open"
    /\ Len(buffers) >= 2
    /\ Len(buffers[1]) > MAX_BYTES
    /\ LineCount(buffers[1]) < MAX_LINES

\* ",key=value" for every entry of a tag map.
TagSection(tags) ==
    Concat([k \in DOMAIN tags |-> <<",">> \o tags[k][1] \o <<"=">> \o tags[k][2]])

\* "key=value" of every field, joined by single commas.
FieldSection(fields) ==
    Concat([k \in DOMAIN fields |->
              (IF k = 1 THEN <<>> ELSE <<",">>)
                 \o fields[k][1] \o <<"=">> \o PointValue_serialize(fields[k][2])])

\* The line the claim describes for a point.
LineOf(point) ==
    point.measurement_name \o TagSection(default_tags) \o TagSection(point.tags)
        \o <<" ">> \o FieldSection(point.fields) \o <<" ">>
        \o IntToChars(process_timestamp(precision, point.time)) \o <<"\n">>

\* 'cpu,env=prod value=2.5 <ts>\n'
ScenarioALine ==
    <<"c", "p", "u", ",", "e", "n", "v", "=", "p", "r", "o", "d", " ",
      "v", "a", "l", "u", "e", "=", "2", ".", "5", " ">>
        \o IntToChars(process_timestamp(precision, PointCpu.time)) \o <<"\n">>

\* C10: each point is serialized as exactly one line: measurement, the
\* default tags, the own tags, a space, the fields joined by commas, a
\* space, the timestamp, a newline; and three cpu points with default tag
\* env=prod batch into exactly one buffer of three scenario lines.
C10_LineFormat ==
    /\ Concat(buffers) \o current_buffer
          = Concat([k \in DOMAIN added |-> LineOf(added[k])])
    /\ (/\ phase = "finalized"
        /\ default_tags = EnvProd
        /\ added = <<PointCpu, PointCpu, PointCpu>>)
          => yielded = <<ScenarioALine \o ScenarioALine \o ScenarioALine>>

\* C10's case: scenario A was written and finalized.
C10_Witness ==
    /\ phase = "finalized"
    /\ default_tags = EnvProd
    /\ added = <<PointCpu, PointCpu, PointCpu>>
    /\ Len(yielded) = 1


----------------------------------------------------------------------------
(* TagName construction on every short text                                *)

\* The longest text tried as a tag name.
MaxNameLen == 3

\* Bytes of every class the validator tells apart: a letter of each case, a
\* digit, the two allowed marks, a space, a separator of column names and
\* a byte of a non-ASCII character.
NameBytes == {"a", "Z", "7", "_", "-", " ", ":", "0xC3"}

NameTexts == UNION {[1..n -> NameBytes] : n \in 0..MaxNameLen}

InitTagName ==
    /\ fn \in {"TryFrom<&str>", "TryFrom<String>", "TryFrom<&String>"}
    /\ arg \in NameTexts
    /\ ret = <<>> /\ pc = "ready"
    /\ IdleBatcher /\ IdleStream

\* TagName::try_from(value: &str)
TryFromStr ==
    /\ pc = "ready" /\ fn = "TryFrom<&str>"
    /\ ret' = TagName_try_from_str(arg)
    /\ pc' = "done"
    /\ UNCHANGED <<fn, arg, batcherVars, streamVars>>

\* TagName::try_from(value: String)
TryFromString ==
    /\ pc = "ready" /\ fn = "TryFrom<String>"
    /\ ret' = TagName_try_from_String(arg)
    /\ pc' = "done"
    /\ UNCHANGED <<fn, arg, batcherVars, streamVars>>

\* TagName::try_from(value: &String)
TryFromStringRef ==
    /\ pc = "ready" /\ fn = "TryFrom<&String>"
    /\ ret' = TagName_try_from_String_ref(arg)
    /\ pc' = "done"
    /\ UNCHANGED <<fn, arg, batcherVars, streamVars>>

NextTagName == TryFromStr \/ TryFromString \/ TryFromStringRef

SpecTagName == InitTagName /\ [][NextTagName]_vars

\* The validator as the claim words it.
ValidTagText(text) ==
    /\ Len(text) > 0
    /\ text[1] \in Digits \cup UpperCase \cup LowerCase
    /\ \A k \in 1..Len(text) :
          text[k] \in Digits \cup UpperCase \cup LowerCase \cup {"_", "-"}

\* C9: TagName construction succeeds exactly when the text is non-empty,
\* starts with an ASCII alphanumeric byte and holds only ASCII
\* alphanumerics, '_' and '-'; on success the name's text is the input,
\* otherwise the error is InvalidTagName carrying the input.
C9_TagNameConstruction ==
    pc = "done" =>
        /\ ret.ok <=> ValidTagText(arg)
        /\ ret.ok => TagName_as_ref(ret.name) = arg
        /\ ~ret.ok => (ret.err = "InvalidTagName" /\ ret.text = arg)

\* C9's case: a text that fails only on its first byte was rejected.
C9_Witness ==
    /\ pc = "done"
    /\ fn = "TryFrom<&String>"
    /\ arg = <<"_", "a", "7">>
    /\ ~ret.ok

----------------------------------------------------------------------------
(* Encode and Decode on typed values and on stored PointValues             *)

SignedTypes   == <<"i8", "i16", "i32", "i64">>
UnsignedTypes == <<"u8", "u16", "u32", "u64">>

\* The target types the crate implements Decode for (Option<T> aside).
DecodeTargets ==
    <<"f64", "f32", "i8", "i16", "i32", "i64", "u8", "u16", "u32", "u64",
      "bool", "String", "&str", "DateTime">>

SampleTexts == << <<>>, <<"a">>, <<"a", "\"", "b", "\\">> >>

SampleTimes == <<T0, DateTime(-1, 999999999), DateTime(1, 500000000)>>

SampleFloats ==
    <<F0, F64("fin", FALSE, 25), F64("fin", TRUE, 5), F64("fin", FALSE, 1),
      F64("huge", FALSE, 0), F64("huge", TRUE, 0), F64("inf", FALSE, 0),
      F64("inf", TRUE, 0), F64("nan", FALSE, 0)>>

\* The floats an f32 holds.
SampleFloats32 ==
    <<F0, F64("fin", FALSE, 25), F64("fin", TRUE, 5), F64("inf", FALSE, 0),
      F64("nan", FALSE, 0)>>

\* The ends of every integer type's range, their neighbours, and 0, 1, -1.
SampleWides ==
    <<W(0), W(1), W(-1), W(127), W(128), W(-128), W(-129), W(255), W(256),
      W(32767), W(32768), W(-32768), W(-32769), W(65535), W(65536),
      MaxOf("i32"), Wide(FALSE, 0, 0, 32768, 0),
      MinOf("i32"), Wide(TRUE, 0, 0, 32768, 1),
      MaxOf("u32"), Wide(FALSE, 0, 1, 0, 0),
      MaxOf("i64"), MinOf("i64"),
      Wide(FALSE, 32768, 0, 0, 0), MaxOf("u64")>>

SeqRange(q) == {q[k] : k \in DOMAIN q}

\* Typed values: every sample that is a value of the type.
TypedValues ==
    UNION {{TV_Int(T, n) : n \in {m \in SeqRange(SampleWides) : InRange(T, m)}} :
              T \in SeqRange(SignedTypes) \cup SeqRange(UnsignedTypes)}
    \cup {TV_Bool(b) : b \in BOOLEAN}
    \cup {TV_Text(ty, t) : ty \in {"String", "&str"}, t \in SeqRange(SampleTexts)}
    \cup {TV_DateTime(t) : t \in SeqRange(SampleTimes)}
    \cup {TV_Float("f64", f) : f \in SeqRange(SampleFloats)}
    \cup {TV_Float("f32", f) : f \in SeqRange(SampleFloats32)}

\* Stored values: every variant, the integers at every sample.
StoredValues ==
    {PV_Null}
    \cup {PV_Float(f) : f \in SeqRange(SampleFloats)}
    \cup {PV_Integer(n) : n \in {m \in SeqRange(SampleWides) : InRange("i64", m)}}
    \cup {PV_UInteger(n) : n \in {m \in SeqRange(SampleWides) : InRange("u64", m)}}
    \cup {PV_Boolean(b) : b \in BOOLEAN}
    \cup {PV_String(t) : t \in SeqRange(SampleTexts)}
    \cup {PV_Timestamp(t) : t \in SeqRange(SampleTimes)}

\* The typed values of a round trip: the above and every stored value as a
\* value of type PointValue.
RoundTripValues == TypedValues \cup {TV_PointValue(v) : v \in StoredValues}

InitValue ==
    /\ \/ /\ fn = "round_trip"
          /\ \E x \in RoundTripValues : arg = [ty |-> x.ty, x |-> x, v |-> PV_Null]
       \/ /\ fn = "decode"
          /\ \E T \in SeqRange(DecodeTargets), v \in StoredValues :
                arg = [ty |-> T, x |-> TV_Unit, v |-> v]
    /\ ret = <<>> /\ pc = "ready"
    /\ IdleBatcher /\ IdleStream

\* T::decode(&x.encode()) at x's own type T
RoundTrip ==
    /\ pc = "ready" /\ fn = "round_trip"
    /\ ret' = Decode(arg.ty, Encode(arg.x))
    /\ pc' = "done"
    /\ UNCHANGED <<fn, arg, batcherVars, streamVars>>

\* T::decode(&v) of a stored value at a target type
DecodeStored ==
    /\ pc = "ready" /\ fn = "decode"
    /\ ret' = Decode(arg.ty, arg.v)
    /\ pc' = "done"
    /\ UNCHANGED <<fn, arg, batcherVars, streamVars>>

NextValue == RoundTrip \/ DecodeStored

SpecValue == InitValue /\ [][NextValue]_vars


\* The target types the claims name for a round trip or a decode.
ClaimedRoundTripTypes ==
    {"i8", "i16", "i32", "i64", "u8", "u16", "u32", "u64", "bool", "String",
     "&str", "DateTime", "PointValue"}

\* C7 as stated: for every typed value x of a claimed type, PointValue
\* among them, decoding Encode(x) at x's type succeeds and returns x.
C7_Original ==
    (pc = "done" /\ fn = "round_trip" /\ arg.ty \in ClaimedRoundTripTypes)
        => (ret.status = "Ok" /\ ret.val = arg.x)

\* C7, amended: the round trip succeeds and returns x for every claimed
\* type that has a Decode implementation (the integers, bool, String, &str,
\* the timestamp); PointValue has an Encode but no Decode implementation,
\* so there is no decoding at target type PointValue.
C7_RoundTrip ==
    (pc = "done" /\ fn = "round_trip")
        => /\ arg.ty \in ClaimedRoundTripTypes \ {"PointValue"}
                => (ret.status = "Ok" /\ ret.val = arg.x)
           /\ arg.ty = "PointValue" => ret.status = "NoImpl"

\* C7's case: the most negative i8 went through Encode and Decode.
C7_Witness ==
    /\ pc = "done" /\ fn = "round_trip"
    /\ arg.ty = "i8" /\ arg.x.n = MinOf("i8")
    /\ ret.status = "Ok"

\* The variant that belongs to a target type.
VariantOf(T) ==
    CASE T \in {"f64", "f32"}                -> "Float"
      [] T \in {"i8", "i16", "i32", "i64"}   -> "Integer"
      [] T \in {"u8", "u16", "u32", "u64"}   -> "UInteger"
      [] T = "bool"                          -> "Boolean"
      [] T \in {"String", "&str"}            -> "String"
      [] T = "DateTime"                      -> "Timestamp"

NarrowIntegerTypes == {"i8", "i16", "i32", "u8", "u16", "u32"}

\* The stored payload as a value of type T, unchanged.
PayloadAs(T, v) == TV(T, "-", v.f, v.n, v.b, v.s, v.t)

\* C8 as stated: decoding to a non-optional target succeeds if and only if
\* the variant belongs to the target and, for a narrower integer target,
\* the value is in the target's range; otherwise it is a conversion error;
\* a success returns the stored value, not coerced or wrapped.
C8_Original ==
    (pc = "done" /\ fn = "decode") =>
        /\ ret.status = "Ok"
              <=> /\ arg.v.variant = VariantOf(arg.ty)
                  /\ arg.ty \in NarrowIntegerTypes => InRange(arg.ty, arg.v.n)
        /\ ret.status # "Ok" => ret.status = "Err"
        /\ ret.status = "Ok" => ret.val = PayloadAs(arg.ty, arg.v)

\* C8, amended: as stated for every target but f32; a decode to f32 also
\* fails with a conversion error when the stored float is finite but beyond
\* f32's range, and otherwise returns the nearest f32, which is the stored
\* value only when an f32 holds that value exactly.
C8_DecodeSucceedsIff ==
    (pc = "done" /\ fn = "decode") =>
        /\ ret.status = "Ok"
              <=> /\ arg.v.variant = VariantOf(arg.ty)
                  /\ arg.ty \in NarrowIntegerTypes => InRange(arg.ty, arg.v.n)
                  /\ arg.ty = "f32" => arg.v.f.cls # "huge"
        /\ ret.status # "Ok" => ret.status = "Err"
        /\ (ret.status = "Ok" /\ arg.ty # "f32")
              => ret.val = PayloadAs(arg.ty, arg.v)
        /\ (ret.status = "Ok" /\ arg.ty = "f32")
              => /\ ret.val.ty = "f32"
                 /\ f32_holds(arg.v.f) => ret.val.f = arg.v.f
                 /\ ~f32_holds(arg.v.f)
                       => ret.val.f = F64("fin32", arg.v.f.neg, arg.v.f.tenths)

\* C8's case: Integer(128) was decoded to i8 and refused.
C8_Witness ==
    /\ pc = "done" /\ fn = "decode"
    /\ arg.ty = "i8" /\ arg.v = PV_Integer(W(128))
    /\ ret.status = "Err"


----------------------------------------------------------------------------
(* The PointStream's operations.  The source holds a finite sequence of    *)
(* items, each a batch or an error, and ends after them; they become       *)
(* ready one at a time.                                                    *)

MaxItems == 2

MetaTag       == "iox::column_type::tag"
MetaTimestamp == "iox::column_type::timestamp"
MetaFloat     == "iox::column_type::field::float"
MetaInteger   == "iox::column_type::field::integer"
MetaUInteger  == "iox::column_type::field::uinteger"

NameHost   == <<"h", "o", "s", "t">>
NameCpuPct == <<"c", "p", "u", "_", "p", "c", "t">>
NameN      == <<"n">>

CpuFields ==
    << Field(NameTime, "Timestamp(Nanosecond)", MetaTimestamp),
       Field(NameHost, "Utf8", MetaTag),
       Field(NameCpuPct, "Float64", MetaFloat) >>

\* {time: timestamp, host: tag, cpu_pct: float field}, two rows
BatchCpu ==
    RecordBatch(CpuFields,
                << <<TimeCell(1000000007), TimeCell(2000000000)>>,
                   <<TextCell(<<"a">>), TextCell(<<"b">>)>>,
                   <<FloatCell(F64("fin", FALSE, 25)), FloatCell(F64("fin", FALSE, 990))>> >>,
                2)

\* the same schema with no row
BatchEmpty == RecordBatch(CpuFields, << <<>>, <<>>, <<>> >>, 0)

\* a measurement column and an Int64 column classified as a tag: row 0
\* holds an integer, row 1 a null
BatchBadTag ==
    RecordBatch(<< Field(NameIoxMeasurement, "Utf8", ""),
                   Field(NameHost, "Int64", MetaTag) >>,
                << <<TextCell(<<"c", "p", "u">>), TextCell(<<"c", "p", "u">>)>>,
                   <<IntCell(W(5)), NullCell>> >>,
                2)

\* an unsigned 64-bit column
BatchUInt ==
    RecordBatch(<< Field(NameN, "UInt64", MetaUInteger) >>,
                << <<IntCell(W(7))>> >>, 1)

\* a column of a physical type get_arrow_value has no arm for
BatchInt32 ==
    RecordBatch(<< Field(NameN, "Int32", MetaInteger) >>,
                << <<IntCell(W(7))>> >>, 1)

\* a tag column whose name is no valid TagName
BatchTagName ==
    RecordBatch(<< Field(<<"h", " ", "n">>, "Utf8", MetaTag) >>,
                << <<TextCell(<<"a">>)>> >>, 1)

StreamItems ==
    << BatchItem(BatchCpu), BatchItem(BatchEmpty), BatchItem(BatchBadTag),
       BatchItem(BatchUInt), BatchItem(BatchInt32), BatchItem(BatchTagName),
       ErrorItem >>

Sources == UNION {[1..n -> SeqRange(StreamItems)] : n \in 0..MaxItems}

\* The PointStream as the code's struct.
StreamSelf == [inner |-> inner, batch_buffer |-> batch_buffer, i |-> i, len |-> len]

\* PointStream::new over a source that has nothing ready yet.
InitStream ==
    /\ source_all \in Sources
    /\ LET self == PointStream_new([items |-> source_all, avail |-> 0])
       IN  /\ inner = self.inner
           /\ batch_buffer = self.batch_buffer
           /\ i = self.i
           /\ len = self.len
    /\ produced = <<>> /\ last_poll = "none"
    /\ IdleBatcher /\ IdlePure

\* The source's next item, or its end after the last item, becomes ready.
SourceArrive ==
    /\ inner.avail < Len(inner.items) + 1
    /\ inner' = [inner EXCEPT !.avail = inner.avail + 1]
    /\ UNCHANGED <<batch_buffer, i, len, source_all, produced, last_poll,
                   batcherVars, pureVars>>

\* The consumer polls the stream; a poll that panicked is the last one.
Poll ==
    /\ last_poll # "Panic"
    /\ \E r \in {poll_next(StreamSelf)} :
          /\ inner' = r.self.inner
          /\ batch_buffer' = r.self.batch_buffer
          /\ i' = r.self.i
          /\ len' = r.self.len
          /\ produced' = IF r.out.kind = "Some"
                         THEN Append(produced, r.out.res) ELSE produced
          /\ last_poll' = r.out.kind
    /\ UNCHANGED <<source_all, batcherVars, pureVars>>

NextStream == Poll \/ SourceArrive

SpecStream == InitStream /\ [][NextStream]_vars

\* The consumer keeps polling and the source keeps delivering.
SpecStreamFair == SpecStream /\ WF_vars(Poll) /\ WF_vars(SourceArrive)

----------------------------------------------------------------------------
(* Read-path properties                                                    *)

\* The elements the rows of a batch decode to, in ascending row index.
RowElements(batch) == [r \in 1..batch.num_rows |-> get_point(batch, r - 1)]

ItemElements(item) ==
    IF item.kind = "error" THEN <<FlightErrorElement>> ELSE RowElements(item.batch)

RECURSIVE ElementsOf(_)
ElementsOf(items) ==
    IF items = <<>> THEN <<>>
    ELSE ItemElements(Head(items)) \o ElementsOf(Tail(items))

\* The items the stream has pulled from the source so far.
Pulled == SubSeq(source_all, 1, Len(source_all) - Len(inner.items))

IsDecodeErr(e) == e.status = "Err" /\ e.err.variant # "FlightError"

\* C2: the elements produced so far are exactly the rows of the batches
\* pulled so far, in arrival order and ascending row index, up to the
\* cursor in the buffered batch: each element accounts for one row and one
\* step of the cursor, none skipped, none twice (an error item of the
\* source stands in the sequence as its one error element).
C2_ElementsAreRowsInOrder ==
    IF batch_buffer.some
    THEN /\ Pulled # <<>>
         /\ Pulled[Len(Pulled)] = BatchItem(batch_buffer.batch)
         /\ len = batch_buffer.batch.num_rows
         /\ i <= len
         /\ produced = ElementsOf(SubSeq(Pulled, 1, Len(Pulled) - 1))
                         \o SubSeq(RowElements(batch_buffer.batch), 1, i)
    ELSE /\ i = 0 /\ len = 0
         /\ produced = ElementsOf(Pulled)

C2_Witness ==
    /\ Len(source_all) = 2
    /\ source_all[1] = BatchItem(BatchCpu)
    /\ source_all[2] = BatchItem(BatchBadTag)
    /\ Len(produced) = 4
    /\ batch_buffer.some /\ i = 2

\* C5: a row whose decoding fails gives one error element at that row's
\* place; after the poll that yields it the batch is still buffered with the
\* cursor past the row; and the stream ends only with every remaining row
\* of this and the later batches produced.
C5_DecodeErrorAbortsOnlyRow ==
    /\ \A k \in 1..Len(produced) :
          IsDecodeErr(produced[k]) => produced[k] = ElementsOf(source_all)[k]
    /\ (last_poll = "Some" /\ produced # <<>> /\ IsDecodeErr(produced[Len(produced)]))
          => /\ batch_buffer.some
             /\ i >= 1
             /\ get_point(batch_buffer.batch, i - 1) = produced[Len(produced)]
    /\ (last_poll = "None" /\ \E k \in 1..Len(produced) : IsDecodeErr(produced[k]))
          => produced = ElementsOf(source_all)

C5_Witness ==
    /\ source_all = <<BatchItem(BatchBadTag), BatchItem(BatchCpu)>>
    /\ Len(produced) = 4
    /\ IsDecodeErr(produced[1])
    /\ produced[2].status = "Ok"
    /\ produced[3].status = "Ok"
    /\ last_poll = "None"

\* The stream has ended only with the source exhausted and no row unread.
C6_NoneOnlyWhenExhausted ==
    last_poll = "None"
        => /\ inner.items = <<>>
           /\ ~batch_buffer.some
           /\ produced = ElementsOf(source_all)

\* C6: the stream yields None only when the source is exhausted with no
\* unread row buffered, and, the source being finite and the consumer
\* polling on, it eventually yields None after all rows; a batch of zero
\* rows neither produces an element nor ends the stream.
C6_Original ==
    /\ []C6_NoneOnlyWhenExhausted
    /\ <>(last_poll = "None" /\ produced = ElementsOf(source_all))

----------------------------------------------------------------------------
(* Timestamp rendering (options.rs): process_timestamp at one precision    *)
(* of one instant.                                                         *)

\* Nanoseconds within the second: the ends, and the neighbours of the
\* microsecond, millisecond and half-second marks.
SampleNanos ==
    {0, 1, 999, 1000, 1001, 999999, 1000000, 1000001, 500000000,
     999000000, 999999000, 999999999}

\* Whole seconds around the epoch whose nanosecond count TLC's integers hold.
SampleSecs == {-2, -1, 0, 1}

InitTimestamp ==
    /\ fn = "process_timestamp"
    /\ \E p \in Precisions, secs \in SampleSecs, nanos \in SampleNanos :
          arg = [p |-> p, dt |-> DateTime(secs, nanos)]
    /\ ret = <<>> /\ pc = "ready"
    /\ IdleBatcher /\ IdleStream

\* precision.process_timestamp(dt)
ProcessTimestamp ==
    /\ pc = "ready" /\ fn = "process_timestamp"
    /\ ret' = process_timestamp(arg.p, arg.dt)
    /\ pc' = "done"
    /\ UNCHANGED <<fn, arg, batcherVars, streamVars>>

NextTimestamp == ProcessTimestamp

SpecTimestamp == InitTimestamp /\ [][NextTimestamp]_vars

\* The nanoseconds in one unit of a precision.
NanosPer(p) ==
    CASE p = "Nanoseconds"  -> 1
      [] p = "Microseconds" -> 1000
      [] p = "Milliseconds" -> 1000000
      [] p = "Seconds"      -> 1000000000

\* C11 as stated, truncation being the integer truncation of the
\* nanosecond count (toward zero): for every instant and every precision
\* coarser than nanoseconds, process_timestamp is the truncated count.
C11_Original ==
    (pc = "done" /\ fn = "process_timestamp" /\ arg.p # "Nanoseconds")
        => ret = TruncDiv(timestamp_nanos(arg.dt), NanosPer(arg.p))

\* C11, amended: process_timestamp at a coarser precision is the
\* nanosecond count divided by the unit and rounded toward negative
\* infinity (the floor); that is the truncated count for every instant at
\* or after the epoch and for every instant that is a whole number of
\* units, and one less than it for every other instant before the epoch.
C11_PrecisionExact ==
    (pc = "done" /\ fn = "process_timestamp" /\ arg.p # "Nanoseconds")
        => LET n == timestamp_nanos(arg.dt)
               u == NanosPer(arg.p)
           IN  /\ ret = n \div u
               /\ (n >= 0 \/ n % u = 0) => ret = TruncDiv(n, u)
               /\ (n < 0 /\ n % u # 0) => ret = TruncDiv(n, u) - 1

\* C11's case: one nanosecond before the epoch was rendered in
\* milliseconds, as -1.
C11_Witness ==
    /\ pc = "done" /\ fn = "process_timestamp"
    /\ arg.p = "Milliseconds" /\ arg.dt = DateTime(-1, 999999999)
    /\ ret = -1

----------------------------------------------------------------------------
(* Per-row reconstruction (point_stream.rs): get_point of one row of one   *)
(* batch.  The batches are one column of every name, physical type and     *)
(* classification, alone and before and after each of a few other columns; *)
(* every column holds a value in row 0 and a null in row 1.                *)

NameBad == <<"h", " ", "n">>

ColumnNames ==
    {NameTime, NameHost, NameMeasurement, NameIoxMeasurement, NameBad, NameCpuPct}

DataTypes ==
    {"Null", "Boolean", "Float64", "Int64", "UInt64", "Utf8",
     "Timestamp(Second)", "Timestamp(Millisecond)", "Timestamp(Microsecond)",
     "Timestamp(Nanosecond)", "Int32"}

Metadatas == {"", MetaTag, MetaTimestamp, MetaFloat}

\* The cell a column of a physical type holds in row 0.
ValueCell(dt) ==
    CASE dt = "Null"    -> NullCell
      [] dt = "Boolean" -> BoolCell(TRUE)
      [] dt = "Float64" -> FloatCell(F64("fin", FALSE, 25))
      [] dt \in {"Int64", "UInt64", "Int32"} -> IntCell(W(7))
      [] dt = "Utf8"    -> TextCell(<<"a">>)
      [] OTHER          -> TimeCell(1007)

\* A column: its field and its array of two cells.
Column(name, dt, meta) ==
    [field |-> Field(name, dt, meta), array |-> <<ValueCell(dt), NullCell>>]

Columns ==
    {Column(name, dt, meta) : name \in ColumnNames, dt \in DataTypes,
                              meta \in Metadatas}

\* The columns put before and after: a float field, a column of an
\* unsupported type, an integer column classified as a tag, a timestamp.
OtherColumns ==
    {Column(NameCpuPct, "Float64", MetaFloat), Column(NameN, "Int32", MetaInteger),
     Column(NameHost, "Int64", MetaTag),
     Column(NameTime, "Timestamp(Nanosecond)", MetaTimestamp)}

BatchOf(cols) ==
    RecordBatch([k \in DOMAIN cols |-> cols[k].field],
                [k \in DOMAIN cols |-> cols[k].array], 2)

DecodeBatches ==
    {BatchOf(<<c>>) : c \in Columns}
        \cup {BatchOf(<<c, d>>) : c \in Columns, d \in OtherColumns}
        \cup {BatchOf(<<d, c>>) : c \in Columns, d \in OtherColumns}
        \cup {BatchCpu}

InitDecode ==
    /\ fn = "get_point"
    /\ \E batch \in DecodeBatches, row \in {0, 1} :
          arg = [batch |-> batch, row |-> row]
    /\ ret = <<>> /\ pc = "ready"
    /\ IdleBatcher /\ IdleStream

\* get_point(&batch, row)
GetPoint ==
    /\ pc = "ready" /\ fn = "get_point"
    /\ ret' = get_point(arg.batch, arg.row)
    /\ pc' = "done"
    /\ UNCHANGED <<fn, arg, batcherVars, streamVars>>

NextDecode == GetPoint

SpecDecode == InitDecode /\ [][NextDecode]_vars

----------------------------------------------------------------------------
(* Properties of per-row reconstruction, stated on the batch and the row   *)
(* that were decoded.                                                      *)

DecodedOk == pc = "done" /\ fn = "get_point" /\ ret.status = "Ok"

ColField(k) == arg.batch.fields[k]

ColCell(k) == arg.batch.columns[k][arg.row + 1]

ColIsNull(k) == ColField(k).data_type = "Null" \/ ColCell(k).null

\* The classifications the metadata can name.
RecognizedMetadata ==
    {"iox::column_type::field::integer", "iox::column_type::field::uinteger",
     "iox::column_type::field::float", "iox::column_type::field::string",
     "iox::column_type::field::boolean", "iox::column_type::tag",
     "iox::column_type::timestamp"}

\* Column k is consumed as the measurement.
ColIsMeasurement(k) ==
    /\ ColField(k).data_type = "Utf8"
    /\ ColField(k).name \in {NameMeasurement, NameIoxMeasurement}
    /\ ~ColIsNull(k)

\* Column k is a tag column.
ColIsTag(k) == ~ColIsMeasurement(k) /\ ColField(k).metadata = MetaTag

\* Column k is a time column.
ColIsTime(k) ==
    /\ ~ColIsMeasurement(k)
    /\ \/ ColField(k).metadata = MetaTimestamp
       \/ /\ ColField(k).metadata \notin RecognizedMetadata
          /\ IsTimestampType(ColField(k).data_type)
          /\ ColField(k).name = NameTime

\* Column k is none of these: it is to become a field.
ColIsField(k) == ~ColIsMeasurement(k) /\ ~ColIsTag(k) /\ ~ColIsTime(k)

\* The PointValue of the cell of column k, by its physical type.
ColValue(k) ==
    LET dt == ColField(k).data_type
        c  == ColCell(k)
    IN  IF ColIsNull(k) THEN PV_Null
        ELSE CASE dt = "Boolean" -> PV_Boolean(c.b)
               [] dt = "Float64" -> PV_Float(c.f)
               [] dt = "Int64"   -> PV_Integer(c.n)
               [] dt = "UInt64"  -> PV_UInteger(c.n)
               [] dt = "Utf8"    -> PV_String(c.s)
               [] dt = "Timestamp(Second)" -> PV_Timestamp(DateTime(c.ts, 0))
               [] dt = "Timestamp(Millisecond)" ->
                     PV_Timestamp(DateTime(c.ts \div 1000, (c.ts % 1000) * 1000000))
               [] dt = "Timestamp(Microsecond)" ->
                     PV_Timestamp(DateTime(c.ts \div 1000000, (c.ts % 1000000) * 1000))
               [] dt = "Timestamp(Nanosecond)" ->
                     PV_Timestamp(DateTime(c.ts \div 1000000000, c.ts % 1000000000))
               [] OTHER -> PV_Null

\* The entries of a map (tags or fields) under a key.
EntriesAt(map, key) == {k \in DOMAIN map : map[k][1] = key}

\* C12: in a decoded Point every column that is not consumed as the
\* measurement, as the time or as a tag is a field under the column's name
\* holding the cell's PointValue, Null for a null cell, for every column
\* name (of two such columns of one name, the later one).
C12_Original ==
    DecodedOk =>
        \A k \in DOMAIN arg.batch.fields :
            (/\ ColIsField(k)
             /\ \A j \in DOMAIN arg.batch.fields :
                   (j > k /\ ColIsField(j)) => ColField(j).name # ColField(k).name)
                => \E e \in EntriesAt(ret.point.fields, ColField(k).name) :
                      ret.point.fields[e][2] = ColValue(k)

\* The greatest element of a non-empty set of numbers.
MaxIn(S) == CHOOSE k \in S : \A j \in S : j <= k

\* The columns of the decoded batch.
Cols == DOMAIN arg.batch.fields

\* No column that is to become a field has the name of column k.
NoFieldColumnNamed(k) ==
    \A j \in Cols : ColIsField(j) => ColField(j).name # ColField(k).name

\* C13: in a decoded Point the time is that of the (last) time column whose
\* cell is non-null, a time column being one classified as timestamp or a
\* timestamp-typed column named 'time' of unrecognized classification; no
\* time column, null or not, is among the fields; and every Point decoded
\* from {time: timestamp, host: tag, cpu_pct: float field} has the tag
\* host, the Float field cpu_pct and no field named time.
C13_TimeColumns ==
    DecodedOk =>
        LET set == {k \in Cols : ColIsTime(k) /\ ~ColIsNull(k)}
        IN  /\ ret.point.time = IF set = {} THEN T0 ELSE ColValue(MaxIn(set)).t
            /\ \A k \in Cols :
                  (ColIsTime(k) /\ NoFieldColumnNamed(k))
                     => EntriesAt(ret.point.fields, ColField(k).name) = {}
            /\ arg.batch = BatchCpu
                  => /\ ret.point.tags = <<<<NameHost, ColCell(2).s>>>>
                     /\ ret.point.fields = <<<<NameCpuPct, PV_Float(ColCell(3).f)>>>>
                     /\ ret.point.time = from_timestamp_nanos(ColCell(1).ts)

\* C13's case: the second row of the scenario's batch was decoded.
C13_Witness ==
    /\ DecodedOk
    /\ arg.batch = BatchCpu /\ arg.row = 1
    /\ ret.point.time = DateTime(2, 0)

\* C14: get_point of a row with a non-null text cell in a tag-classified
\* column gives, unless another column fails the row with an error, a Point
\* with a tag under the column's name; no column being of the unsigned
\* type whose extraction fails on its own.
C14_Original ==
    (pc = "done" /\ fn = "get_point"
        /\ \A j \in Cols : ColField(j).data_type # "UInt64")
        => \A k \in Cols :
              (/\ ColIsTag(k) /\ ColField(k).data_type = "Utf8" /\ ~ColIsNull(k)
               /\ ret.status # "Err")
                 => /\ ret.status = "Ok"
                    /\ EntriesAt(ret.point.tags, ColField(k).name) # {}

\* What the Points that get_point does return satisfy: a tag-classified
\* column whose cell is non-null is a tag under the column's name holding
\* the cell's text; one whose cell is null is neither a tag nor a field;
\* and every tag of the Point is the text of a non-null cell of a tag column.
TagColumnsOfDecoded ==
    DecodedOk =>
        /\ \A k \in Cols :
              (/\ ColIsTag(k) /\ ~ColIsNull(k)
               /\ \A j \in Cols : (j > k /\ ColIsTag(j) /\ ~ColIsNull(j))
                                     => ColField(j).name # ColField(k).name)
                 => \E e \in EntriesAt(ret.point.tags, ColField(k).name) :
                       ret.point.tags[e][2] = ColCell(k).s
        /\ \A k \in Cols :
              (/\ ColIsTag(k)
               /\ \A j \in Cols : (ColIsTag(j) /\ ColField(j).name = ColField(k).name)
                                     => ColIsNull(j))
                 => EntriesAt(ret.point.tags, ColField(k).name) = {}
        /\ \A k \in Cols :
              (ColIsTag(k) /\ NoFieldColumnNamed(k))
                 => EntriesAt(ret.point.fields, ColField(k).name) = {}
        /\ \A e \in DOMAIN ret.point.tags :
              \E k \in Cols : /\ ColIsTag(k) /\ ~ColIsNull(k)
                              /\ ColField(k).name = ret.point.tags[e][1]
                              /\ ColCell(k).s = ret.point.tags[e][2]

\* A row with a null in its tag column host and a value in its field column
\* was decoded to a Point without tags.
NullTagDecoded ==
    /\ DecodedOk
    /\ arg.batch = BatchOf(<<Column(NameHost, "Utf8", MetaTag),
                             Column(NameCpuPct, "Float64", MetaFloat)>>)
    /\ arg.row = 1
    /\ ret.point.tags = <<>>
    /\ ret.point.fields = <<<<NameCpuPct, PV_Null>>>>

\* The physical types get_arrow_value has an arm for.
SupportedTypes ==
    {"Null", "Boolean", "Float64", "Int64", "UInt64", "Utf8",
     "Timestamp(Second)", "Timestamp(Millisecond)", "Timestamp(Microsecond)",
     "Timestamp(Nanosecond)"}

\* The error get_arrow_value gives for column k of an unsupported type.
UnsupportedError(k) ==
    PointErr(Error("InvalidPointValue", ColField(k).name, ColField(k).data_type))

ColMismatch(j) ==
    /\ ~ColIsNull(j)
    /\ \/ ColIsTag(j) /\ ColField(j).data_type # "Utf8"
       \/ ColIsTime(j) /\ ~IsTimestampType(ColField(j).data_type)

\* Column j makes get_point panic: its type is UInt64, or it is a tag
\* column with a text cell whose name is no valid tag name.
ColPanics(j) ==
    \/ ColField(j).data_type = "UInt64"
    \/ /\ ColIsTag(j) /\ ColField(j).data_type = "Utf8" /\ ~ColIsNull(j)
       /\ ~validate_name(ColField(j).name)

----------------------------------------------------------------------------
(* Schema-mapping generation (influxdb3-macro).  A derive input is the     *)
(* item's name, its kind, its measurement attribute and its fields; a      *)
(* field is its name, its type and the metas of its influxdb attributes,   *)
(* in order.  The generated conversions are the lists of assignments or    *)
(* extractions the quote! blocks are built from, run by to_point and       *)
(* from_point below.                                                        *)

UpperChars == <<"A", "B", "C", "D", "E", "F", "G", "H", "I", "J", "K", "L", "M",
                "N", "O", "P", "Q", "R", "S", "T", "U", "V", "W", "X", "Y", "Z">>

LowerChars == <<"a", "b", "c", "d", "e", "f", "g", "h", "i", "j", "k", "l", "m",
                "n", "o", "p", "q", "r", "s", "t", "u", "v", "w", "x", "y", "z">>

\* char::to_lowercase on an ASCII upper-case letter
to_lowercase(ch) == LowerChars[CHOOSE k \in DOMAIN UpperChars : UpperChars[k] = ch]

RECURSIVE to_snake_case_from(_, _, _, _)
\* The loop of to_snake_case from character k (from 1) on.
to_snake_case_from(s, k, result, prev_is_lower) ==
    IF k > Len(s) THEN result
    ELSE IF s[k] \in UpperCase
    THEN to_snake_case_from(s, k + 1,
            (IF k > 1 /\ prev_is_lower THEN result \o <<"_">> ELSE result)
                \o <<to_lowercase(s[k])>>,
            FALSE)
    ELSE to_snake_case_from(s, k + 1, result \o <<s[k]>>, s[k] \in LowerCase)

\* util::to_snake_case
to_snake_case(s) == to_snake_case_from(s, 1, <<>>, FALSE)

\* Option<String>
NoneText == [some |-> FALSE, value |-> <<>>]
SomeText(s) == [some |-> TRUE, value |-> s]

\* One meta of an influxdb attribute: `key` or `key = "value"`.
Meta(key) == [key |-> key, lit |-> NoneText]
MetaValue(key, s) == [key |-> key, lit |-> SomeText(s)]

\* A named field of the derive input.
FieldDecl(name, ty, metas) == [name |-> name, ty |-> ty, metas |-> metas]

\* syn's DeriveInput, as far as parse_struct reads it.
DeriveInput(ident, data, fields_kind, measurement, fields) ==
    [ident |-> ident, data |-> data, fields_kind |-> fields_kind,
     measurement |-> measurement, fields |-> fields]

\* struct FieldInfo
FieldInfo(field_name, field_type, rename, ty, use_default, ignore) ==
    [field_name |-> field_name, field_type |-> field_type, rename |-> rename,
     ty |-> ty, use_default |-> use_default, ignore |-> ignore]

\* syn::Error
SynError(msg) == [status |-> "Err", msg |-> msg]

RECURSIVE parse_nested_meta(_, _)
\* The closure of parse_fields run over a field's metas: st holds the
\* field's locals and time_field_count; an unknown meta ends it in error.
parse_nested_meta(metas, st) ==
    IF metas = <<>> THEN st
    ELSE LET m == Head(metas)
         IN  CASE m.key = "time" ->
                    parse_nested_meta(Tail(metas),
                        [st EXCEPT !.is_time_attr = TRUE,
                                   !.time_field_count = @ + 1])
               [] m.key = "tag" ->
                    parse_nested_meta(Tail(metas), [st EXCEPT !.is_tag_attr = TRUE])
               [] m.key = "rename" ->
                    parse_nested_meta(Tail(metas),
                        IF m.lit.some THEN [st EXCEPT !.rename = m.lit] ELSE st)
               [] m.key = "default" ->
                    parse_nested_meta(Tail(metas), [st EXCEPT !.use_default = TRUE])
               [] m.key = "ignore" ->
                    parse_nested_meta(Tail(metas), [st EXCEPT !.ignore = TRUE])
               [] OTHER -> [st EXCEPT !.ok = FALSE]

\* The body of parse_fields' loop for one field, time_field_count being
\* count before it: an error, or the FieldInfo and the new count.
parse_field(field, count) ==
    LET named_time == field.name = NameTime
        Checked(st) ==
            LET field_type == IF st.is_time_attr THEN "Time"
                              ELSE IF st.is_tag_attr THEN "Tag"
                              ELSE IF named_time THEN "Time" ELSE "Field"
            IN  IF ~st.ok THEN SynError("Unknown influxdb attribute")
                ELSE IF st.ignore /\ (st.is_tag_attr \/ st.is_time_attr)
                THEN SynError("Ignored fields cannot be marked as tag or time")
                ELSE IF field_type = "Time" /\ st.time_field_count > 1
                THEN SynError("Only one field can be marked as time")
                ELSE [status |-> "Ok",
                      info |-> FieldInfo(field.name, field_type, st.rename,
                                         field.ty, st.use_default, st.ignore),
                      count |-> st.time_field_count]
    IN  Checked(parse_nested_meta(field.metas,
            [is_time_attr |-> FALSE, is_tag_attr |-> FALSE, rename |-> NoneText,
             use_default |-> FALSE, ignore |-> FALSE, ok |-> TRUE,
             time_field_count |-> IF named_time THEN count + 1 ELSE count]))

RECURSIVE parse_fields_from(_, _, _, _)
\* parse_fields' loop from field k (from 1) on.
parse_fields_from(fields, k, field_infos, count) ==
    LET Next1(r) == IF r.status = "Ok"
                    THEN parse_fields_from(fields, k + 1,
                                           Append(field_infos, r.info), r.count)
                    ELSE r
    IN  IF k > Len(fields) THEN [status |-> "Ok", fields |-> field_infos]
        ELSE Next1(parse_field(fields[k], count))

\* parser::parse_fields
parse_fields(fields_kind, fields) ==
    IF fields_kind # "Named"
    THEN SynError("ToPoint can only be derived for structs with named fields")
    ELSE parse_fields_from(fields, 1, <<>>, 0)

\* parser::parse_struct
parse_struct(input) ==
    LET Info(r) == IF r.status # "Ok" THEN r
                   ELSE [status |-> "Ok", struct_name |-> input.ident,
                         measurement |-> IF input.measurement.some
                                         THEN input.measurement.value
                                         ELSE to_snake_case(input.ident),
                         fields |-> r.fields]
    IN  IF input.data # "Struct"
        THEN SynError("FromPoint can only be derived for structs")
        ELSE Info(parse_fields(input.fields_kind, input.fields))


\* The point name of a field: its rename, or else its own name.
point_name(info) == IF info.rename.some THEN info.rename.value ELSE info.field_name

\* to_point::derive_into_point_impl: an error, or the generated impl as
\* its measurement, the field of its time assignment (None: Utc::now())
\* and its tag and field assignments in order.
derive_into_point_impl(input) ==
    LET Generated(s) ==
            LET IsTime(f)  == ~f.ignore /\ f.field_type = "Time"
                IsTag(f)   == ~f.ignore /\ f.field_type = "Tag"
                IsField(f) == ~f.ignore /\ f.field_type = "Field"
                Assign(fs) == [k \in DOMAIN fs |->
                                 [point_name |-> point_name(fs[k]),
                                  field_name |-> fs[k].field_name]]
                Last(fs)   == IF fs = <<>> THEN NoneText
                              ELSE SomeText(fs[Len(fs)].field_name)
            IN  [status |-> "Ok",
                 impl |-> [struct_name |-> s.struct_name,
                           measurement |-> s.measurement,
                           time_assignment |-> Last(SelectSeq(s.fields, IsTime)),
                           tag_assignments |-> Assign(SelectSeq(s.fields, IsTag)),
                           field_assignments |-> Assign(SelectSeq(s.fields, IsField))]]
        Parsed(s) == IF s.status # "Ok" THEN s ELSE Generated(s)
    IN  Parsed(parse_struct(input))

\* from_point::derive_from_point_impl: an error, or the generated impl as
\* the field of its time extraction and its tag and field extractions in
\* order.  An extraction is Default::default() ("Default"), the value or
\* the default ("OrDefault"), or the value or an error ("Required").
derive_from_point_impl(input) ==
    LET Generated(s) ==
            LET IsTime(f)  == f.field_type = "Time"
                IsTag(f)   == f.field_type = "Tag"
                IsField(f) == f.field_type = "Field"
                Extract(fs) == [k \in DOMAIN fs |->
                                  [field_name |-> fs[k].field_name,
                                   point_name |-> point_name(fs[k]),
                                   ty |-> fs[k].ty,
                                   mode |-> IF ~fs[k].use_default THEN "Required"
                                            ELSE IF fs[k].ignore THEN "Default"
                                            ELSE "OrDefault"]]
                WithTime(ts) ==
                    IF ts = <<>>
                    THEN SynError("FromPoint requires a time field")
                    ELSE [status |-> "Ok",
                          impl |-> [struct_name |-> s.struct_name,
                                    time_extraction |-> ts[Len(ts)].field_name,
                                    tag_extractions |-> Extract(SelectSeq(s.fields, IsTag)),
                                    field_extractions |-> Extract(SelectSeq(s.fields, IsField))]]
            IN  IF \E k \in DOMAIN s.fields :
                      s.fields[k].ignore /\ ~s.fields[k].use_default
                THEN SynError("Ignored fields must also be marked with #[influxdb(default)]")
                ELSE WithTime(SelectSeq(s.fields, IsTime))
        Parsed(s) == IF s.status # "Ok" THEN s ELSE Generated(s)
    IN  Parsed(parse_struct(input))

\* HashMap::get on a map kept as its entries
map_get(m, key) ==
    IF \E k \in DOMAIN m : m[k][1] = key
    THEN [some |-> TRUE, value |-> m[CHOOSE k \in DOMAIN m : m[k][1] = key][2]]
    ELSE [some |-> FALSE, value |-> <<>>]

\* Point::get_tag: the tag's text if there is one; it panics on a key
\* that is no valid tag name.
Point_get_tag(self, key) ==
    IF ~TagName_try_from_str(key).ok
    THEN [panic |-> TRUE, some |-> FALSE, value |-> <<>>]
    ELSE [panic |-> FALSE, some |-> map_get(self.tags, key).some,
          value |-> map_get(self.tags, key).value]

\* Point::get_field::<T>: Ok(None) without the key, else T::decode of
\* the stored value.
Point_get_field(self, T, key) ==
    IF ~map_get(self.fields, key).some
    THEN [status |-> "Ok", some |-> FALSE, val |-> TV_Unit, err |-> ""]
    ELSE [status |-> Decode(T, map_get(self.fields, key).value).status,
          some |-> TRUE,
          val |-> Decode(T, map_get(self.fields, key).value).val,
          err |-> Decode(T, map_get(self.fields, key).value).err]

RECURSIVE DigitsToNat(_)
\* The number a text of decimal digits writes.
DigitsToNat(s) ==
    IF s = <<>> THEN 0
    ELSE 10 * DigitsToNat(SubSeq(s, 1, Len(s) - 1))
           + (CHOOSE d \in 0..9 : DigitChars[d + 1] = s[Len(s)])

\* str::parse::<T> for String, bool and i64 (i64 on texts of at most nine
\* digits, which cannot overflow).
str_parse(T, s) ==
    CASE T = "String" -> DecodeOk(TV_Text("String", s))
      [] T = "bool"   -> IF s = <<"t", "r", "u", "e">> THEN DecodeOk(TV_Bool(TRUE))
                         ELSE IF s = <<"f", "a", "l", "s", "e">> THEN DecodeOk(TV_Bool(FALSE))
                         ELSE DecodeErr("ParseBoolError")
      [] T = "i64"    ->
            LET signed == s # <<>> /\ s[1] \in {"+", "-"}
                digits == IF signed THEN Tail(s) ELSE s
            IN  IF digits = <<>> \/ \E k \in DOMAIN digits : digits[k] \notin Digits
                THEN DecodeErr("ParseIntError")
                ELSE DecodeOk(TV_Int("i64",
                        W(IF signed /\ s[1] = "-" THEN 0 - DigitsToNat(digits)
                          ELSE DigitsToNat(digits))))
      [] OTHER -> DecodeNoImpl

\* Default::default()
default_of(T) ==
    CASE T = "String"   -> TV_Text("String", <<>>)
      [] T = "bool"     -> TV_Bool(FALSE)
      [] T = "i64"      -> TV_Int("i64", W(0))
      [] T = "f64"      -> TV_Float("f64", F0)
      [] T = "DateTime" -> TV_DateTime(T0)
      [] OTHER          -> TV_Unit

\* InfluxDBError::Other(format!(..)): the message's template and the
\* point name put into it.
OtherError(template, name) == Error("Other", name, template)

\* The outcome of one generated extraction.
Extracted(v) == [status |-> "Ok", val |-> v, err |-> NoError]
ExtractErr(e) == [status |-> "Err", val |-> TV_Unit, err |-> e]
ExtractPanic == [status |-> "Panic", val |-> TV_Unit, err |-> NoError]

\* A generated tag extraction (from_point.rs:35-64) run on a Point.
tag_extraction(x, point) ==
    LET Parse(s) ==
            IF str_parse(x.ty, s).status = "Ok" THEN Extracted(str_parse(x.ty, s).val)
            ELSE ExtractErr(OtherError("Failed to parse tag", x.point_name))
        Got(t) ==
            IF t.panic THEN ExtractPanic
            ELSE IF t.some THEN Parse(t.value)
            ELSE IF x.mode = "OrDefault" THEN Extracted(default_of(x.ty))
            ELSE ExtractErr(OtherError("Missing required tag", x.point_name))
    IN  IF x.mode = "Default" THEN Extracted(default_of(x.ty))
        ELSE Got(Point_get_tag(point, x.point_name))

\* A generated field extraction (from_point.rs:65-91) run on a Point.
field_extraction(x, point) ==
    LET Got(g) ==
            IF g.status # "Ok"
            THEN ExtractErr(OtherError("Failed to convert field", x.point_name))
            ELSE IF g.some THEN Extracted(g.val)
            ELSE IF x.mode = "OrDefault" THEN Extracted(default_of(x.ty))
            ELSE ExtractErr(OtherError("Missing required field", x.point_name))
    IN  IF x.mode = "Default" THEN Extracted(default_of(x.ty))
        ELSE Got(Point_get_field(point, x.ty, x.point_name))

RECURSIVE extractions_from(_, _, _, _)
\* The members of the generated struct literal from the k-th extraction
\* on, tags before fields, each ending the conversion if it fails.
extractions_from(xs, n_tags, k, point) ==
    LET Rest(r) ==
            LET More(m) == IF m.status # "Ok" THEN m
                           ELSE [m EXCEPT !.record =
                                    <<<<xs[k].field_name, r.val>>>> \o @]
            IN  IF r.status # "Ok"
                THEN [status |-> r.status, record |-> <<>>, err |-> r.err]
                ELSE More(extractions_from(xs, n_tags, k + 1, point))
    IN  IF k > Len(xs) THEN [status |-> "Ok", record |-> <<>>, err |-> NoError]
        ELSE Rest(IF k <= n_tags THEN tag_extraction(xs[k], point)
                  ELSE field_extraction(xs[k], point))

\* The generated FromPoint::from_point (from_point.rs:102-112): the
\* record as its members in the literal's order, an error, or a panic.
from_point(impl, point) ==
    LET WithTime(r) ==
            IF r.status # "Ok" THEN r
            ELSE [r EXCEPT !.record =
                     <<<<impl.time_extraction, TV_DateTime(point.time)>>>> \o @]
    IN  WithTime(extractions_from(impl.tag_extractions \o impl.field_extractions,
                                  Len(impl.tag_extractions), 1, point))


RECURSIVE assignments_from(_, _, _, _, _)
\* The generated tag and field assignments from the k-th on, tags before
\* fields, run on the Point being built: set_tag with the member's text,
\* set_field with the member's encoding.
assignments_from(assigns, n_tags, k, record, point) ==
    LET member == map_get(record, assigns[k].field_name).value
        Tagged(t) == IF t.panic THEN PointPanic
                     ELSE assignments_from(assigns, n_tags, k + 1, record, t.point)
    IN  IF k > Len(assigns) THEN PointOk(point)
        ELSE IF k <= n_tags
        THEN Tagged(Point_set_tag(point, assigns[k].point_name, member.s))
        ELSE assignments_from(assigns, n_tags, k + 1, record,
                 Point_set_field(point, assigns[k].point_name, Encode(member)))

\* The generated ToPoint::to_point (to_point.rs:48-62) on a record, now
\* being the clock's reading: the Point, or a panic of set_tag.
to_point(impl, record, now) ==
    assignments_from(impl.tag_assignments \o impl.field_assignments,
        Len(impl.tag_assignments), 1, record,
        Point_set_timestamp(
            Point(impl.measurement, <<>>, <<>>, now),
            IF impl.time_assignment.some
            THEN map_get(record, impl.time_assignment.value).value.t
            ELSE now))

----------------------------------------------------------------------------
(* Generation and the generated Point->record conversion, over sample      *)
(* record definitions and Points                                            *)

NameTs == <<"t", "s">>
NameV  == <<"v">>

MaxFields == 3

\* The field declarations the record definitions are made of.
FieldDecls ==
    { FieldDecl(NameTime, "DateTime", <<>>),
      FieldDecl(NameTime, "DateTime", <<Meta("time")>>),
      FieldDecl(NameTs, "DateTime", <<Meta("time")>>),
      FieldDecl(NameTime, "String", <<Meta("tag")>>),
      FieldDecl(NameTime, "DateTime", <<Meta("ignore"), Meta("default")>>),
      FieldDecl(NameHost, "String", <<Meta("tag")>>),
      FieldDecl(NameHost, "String", <<Meta("tag"), Meta("default")>>),
      FieldDecl(NameHost, "i64", <<Meta("tag")>>),
      FieldDecl(NameHost, "String", <<Meta("tag"), MetaValue("rename", NameBad)>>),
      FieldDecl(NameHost, "String", <<Meta("ignore"), Meta("tag")>>),
      FieldDecl(NameV, "f64", <<>>),
      FieldDecl(NameV, "f64", <<Meta("default")>>),
      FieldDecl(NameV, "i64", <<MetaValue("rename", NameN)>>),
      FieldDecl(NameV, "f64", <<Meta("ignore")>>),
      FieldDecl(NameV, "f64", <<Meta("ignore"), Meta("default")>>),
      FieldDecl(NameV, "f64", <<Meta("bogus")>>) }

\* Field lists of at most MaxFields fields of different names.
FieldLists ==
    {fs \in UNION {[1..n -> FieldDecls] : n \in 0..MaxFields} :
        \A j, k \in DOMAIN fs : j # k => fs[j].name # fs[k].name}

NameCpuStat == <<"C", "p", "u", "S", "t", "a", "t">>

DeriveInputs ==
    {DeriveInput(NameCpuStat, "Struct", "Named", NoneText, fs) : fs \in FieldLists}
        \cup {DeriveInput(NameCpuStat, "Struct", "Named", SomeText(<<"c", "p", "u">>),
                          <<FieldDecl(NameTime, "DateTime", <<>>)>>),
              DeriveInput(NameCpuStat, "Enum", "Named", NoneText, <<>>),
              DeriveInput(NameCpuStat, "Struct", "Unnamed", NoneText, <<>>)}

\* The Points the generated conversion is run on.
MacroPoints ==
    {Point(<<"c", "p", "u">>, tags, fields, DateTime(1, 500000000)) :
        tags \in {<<>>, <<<<NameHost, <<"a">>>>>>, <<<<NameHost, <<"7">>>>>>},
        fields \in {<<>>, <<<<NameV, PV_Float(F64("fin", FALSE, 25))>>>>,
                    <<<<NameV, PV_Integer(W(7))>>>>, <<<<NameV, PV_Null>>>>,
                    <<<<NameN, PV_Integer(W(7))>>>>}}

InitMacro ==
    /\ fn \in {"derive_into_point", "derive_from_point"}
    /\ arg \in DeriveInputs
    /\ ret = <<>> /\ pc = "ready"
    /\ IdleBatcher /\ IdleStream

\* #[derive(ToPoint)]
DeriveIntoPoint ==
    /\ pc = "ready" /\ fn = "derive_into_point"
    /\ ret' = derive_into_point_impl(arg)
    /\ pc' = "derived"
    /\ UNCHANGED <<fn, arg, batcherVars, streamVars>>

\* #[derive(FromPoint)]
DeriveFromPoint ==
    /\ pc = "ready" /\ fn = "derive_from_point"
    /\ ret' = derive_from_point_impl(arg)
    /\ pc' = "derived"
    /\ UNCHANGED <<fn, arg, batcherVars, streamVars>>

\* A call of the generated from_point on some Point.
FromPoint ==
    /\ pc = "derived" /\ fn = "derive_from_point" /\ ret.status = "Ok"
    /\ \E p \in MacroPoints :
          ret' = [status |-> "Ok", impl |-> ret.impl, point |-> p,
                  out |-> from_point(ret.impl, p)]
    /\ pc' = "converted"
    /\ UNCHANGED <<fn, arg, batcherVars, streamVars>>

\* The member a sample record holds for a field of a declared type.
sample_of(ty) ==
    CASE ty = "String"   -> TV_Text("String", <<"b">>)
      [] ty = "i64"      -> TV_Int("i64", W(7))
      [] ty = "f64"      -> TV_Float("f64", F64("fin", FALSE, 25))
      [] ty = "DateTime" -> TV_DateTime(DateTime(2, 0))
      [] OTHER           -> TV_Unit

\* The record a generated to_point is run on: a sample member per field.
RecordOf(fields) ==
    [k \in DOMAIN fields |-> <<fields[k].name, sample_of(fields[k].ty)>>]

\* The readings of the clock (Utc::now()).
Nows == {DateTime(3, 0), DateTime(4, 0)}

\* A call of the generated to_point on a record.  The generated set_tag
\* takes the member as &str, so the impl compiles only with text tags.
ToPoint ==
    /\ pc = "derived" /\ fn = "derive_into_point" /\ ret.status = "Ok"
    /\ \A k \in DOMAIN arg.fields :
          (\E a \in DOMAIN ret.impl.tag_assignments :
              ret.impl.tag_assignments[a].field_name = arg.fields[k].name)
             => arg.fields[k].ty = "String"
    /\ \E now \in Nows :
          ret' = [status |-> "Ok", impl |-> ret.impl, record |-> RecordOf(arg.fields),
                  out |-> to_point(ret.impl, RecordOf(arg.fields), now)]
    /\ pc' = "converted"
    /\ UNCHANGED <<fn, arg, batcherVars, streamVars>>

NextMacro == DeriveIntoPoint \/ DeriveFromPoint \/ FromPoint \/ ToPoint

SpecMacro == InitMacro /\ [][NextMacro]_vars

\* Field k of the record definition is in the time role: it carries the
\* time annotation, or it is named 'time' and not annotated as a tag.
TimeDesignated(k) ==
    \/ \E m \in DOMAIN arg.fields[k].metas : arg.fields[k].metas[m].key = "time"
    \/ /\ arg.fields[k].name = NameTime
       /\ \A m \in DOMAIN arg.fields[k].metas : arg.fields[k].metas[m].key # "tag"

\* The errors of the time rule.
TimeRuleErrors ==
    {"Only one field can be marked as time", "FromPoint requires a time field"}

\* C16: generation of either conversion fails when the record definition
\* has no field in the time role or more than one, and does not fail on
\* the time rule when it has exactly one.
C16_Original ==
    (pc = "derived" /\ arg.data = "Struct" /\ arg.fields_kind = "Named")
        => LET n == Cardinality({k \in DOMAIN arg.fields : TimeDesignated(k)})
           IN  /\ n # 1 => ret.status = "Err"
               /\ n = 1 => ~(ret.status = "Err" /\ ret.msg \in TimeRuleErrors)


\* The generated extractions of the conversion that was run, tags first.
Extractions == ret.impl.tag_extractions \o ret.impl.field_extractions

\* Extraction k reads a tag.
IsTagExtraction(k) == k <= Len(ret.impl.tag_extractions)

\* The Point holds something under the point name of extraction k.
Present(k) ==
    IF IsTagExtraction(k)
    THEN EntriesAt(ret.point.tags, Extractions[k].point_name) # {}
    ELSE EntriesAt(ret.point.fields, Extractions[k].point_name) # {}

\* What the Point holds under that name, read as the declared type.
Parsed(k) ==
    IF IsTagExtraction(k)
    THEN str_parse(Extractions[k].ty,
                   map_get(ret.point.tags, Extractions[k].point_name).value)
    ELSE Decode(Extractions[k].ty,
                map_get(ret.point.fields, Extractions[k].point_name).value)

\* Extraction k cannot be satisfied from the Point: required and absent,
\* or present and not parseable as the declared type.
Fails(k) ==
    \/ ~Present(k) /\ Extractions[k].mode = "Required"
    \/ Present(k) /\ Parsed(k).status # "Ok"

\* The member of the record that extraction k fills.
Member(k) == map_get(ret.out.record, Extractions[k].field_name)

\* C17: of the generated Point->record conversion, for every non-ignored
\* field or tag: if one that is required is absent, or one is present and
\* not parseable, the conversion fails with an error naming such a member;
\* if none is, the conversion succeeds, a member declared with use-default
\* that is absent is the type's default value, and a member present and
\* parseable is the decoded value.
C17_Original ==
    (pc = "converted" /\ fn = "derive_from_point")
        => \A k \in DOMAIN Extractions :
              Extractions[k].mode # "Default"
                 => /\ Fails(k)
                       => /\ ret.out.status = "Err"
                          /\ \E j \in DOMAIN Extractions :
                                /\ Fails(j) /\ Extractions[j].mode # "Default"
                                /\ ret.out.err.text = Extractions[j].point_name
                    /\ (\A j \in DOMAIN Extractions :
                           Extractions[j].mode # "Default" => ~Fails(j))
                       => /\ ret.out.status = "Ok"
                          /\ Member(k).some
                          /\ Member(k).value =
                                IF Present(k) THEN Parsed(k).val
                                ELSE default_of(Extractions[k].ty)

\* Every tag the conversion reads has a point name that is a valid tag
\* name.
TagNamesValid ==
    \A k \in DOMAIN ret.impl.tag_extractions :
        ret.impl.tag_extractions[k].mode # "Default"
            => validate_name(ret.impl.tag_extractions[k].point_name)

\* What holds of C17: the same, of conversions all of whose tags have a
\* valid point name, with the error naming the first member that cannot be
\* satisfied.
FromPointOfValidNames ==
    (pc = "converted" /\ fn = "derive_from_point" /\ TagNamesValid)
        => LET failing == {j \in DOMAIN Extractions :
                              Extractions[j].mode # "Default" /\ Fails(j)}
           IN  /\ failing # {}
                  => /\ ret.out.status = "Err"
                     /\ ret.out.err.variant = "Other"
                     /\ ret.out.err.text =
                           Extractions[CHOOSE j \in failing :
                                          \A j2 \in failing : j <= j2].point_name
               /\ failing = {}
                  => /\ ret.out.status = "Ok"
                     /\ \A k \in DOMAIN Extractions :
                           /\ Member(k).some
                           /\ Member(k).value =
                                 IF Extractions[k].mode # "Default" /\ Present(k)
                                 THEN Parsed(k).val
                                 ELSE default_of(Extractions[k].ty)


----------------------------------------------------------------------------
(* Option<T> in the value model (point_value.rs)                            *)

\* Option<T> of a typed value
None == [some |-> FALSE, val |-> TV_Unit]
Some(x) == [some |-> TRUE, val |-> x]

\* Result<Option<T>, InfluxDBError>
OkNone == [status |-> "Ok", some |-> FALSE, val |-> TV_Unit, err |-> ""]
OkSome(x) == [status |-> "Ok", some |-> TRUE, val |-> x, err |-> ""]
ErrOption(msg) == [status |-> "Err", some |-> FALSE, val |-> TV_Unit, err |-> msg]

\* impl Encode for Option<T>
encode_Option(o) == IF o.some THEN Encode(o.val) ELSE PV_Null

\* Mutation of the Decode impl of Option<T>: Null goes to T's decoding too.
decode_Option_through_inner(T, value) ==
    IF Decode(T, value).status = "Ok" THEN OkSome(Decode(T, value).val)
    ELSE ErrOption(Decode(T, value).err)

\* impl Decode for Option<T>
decode_Option(T, value) ==
    IF value.variant = "Null" THEN OkNone
    ELSE IF Decode(T, value).status = "Ok" THEN OkSome(Decode(T, value).val)
    ELSE ErrOption(Decode(T, value).err)

InitOption ==
    /\ \/ /\ fn = "Option::encode"
          /\ \E o \in {None, Some(TV_Unit)} \cup {Some(x) : x \in RoundTripValues} :
                arg = [ty |-> o.val.ty, o |-> o, v |-> PV_Null]
       \/ /\ fn \in {"Option::decode", "get_value"}
          /\ \E T \in SeqRange(DecodeTargets), v \in StoredValues :
                arg = [ty |-> T, o |-> None, v |-> v]
    /\ ret = <<>> /\ pc = "ready"
    /\ IdleBatcher /\ IdleStream

\* Option<T>::encode
EncodeOption ==
    /\ pc = "ready" /\ fn = "Option::encode"
    /\ ret' = encode_Option(arg.o)
    /\ pc' = "done"
    /\ UNCHANGED <<fn, arg, batcherVars, streamVars>>

\* Option<T>::decode(&v)
DecodeOption ==
    /\ pc = "ready" /\ fn = "Option::decode"
    /\ ret' = decode_Option(arg.ty, arg.v)
    /\ pc' = "done"
    /\ UNCHANGED <<fn, arg, batcherVars, streamVars>>

\* v.get_value::<T>()
GetValue ==
    /\ pc = "ready" /\ fn = "get_value"
    /\ ret' = PointValue_get_value(arg.ty, arg.v)
    /\ pc' = "done"
    /\ UNCHANGED <<fn, arg, batcherVars, streamVars>>

NextOption == EncodeOption \/ DecodeOption \/ GetValue

SpecOption == InitOption /\ [][NextOption]_vars

\* C18: encoding None gives Null and encoding Some(x) gives the encoding
\* of x; decoding Null to Option<T> gives None for every T, whatever T's
\* own decoding makes of Null; decoding another value gives Some of T's
\* decoding or T's error; and get_value gives None for Null for every T.
C18_OptionTransparent ==
    pc = "done" =>
        /\ fn = "Option::encode"
              => /\ ~arg.o.some => ret.variant = "Null"
                 /\ arg.o.some => ret = Encode(arg.o.val)
        /\ fn = "Option::decode"
              => /\ arg.v.variant = "Null" => ret.status = "Ok" /\ ~ret.some
                 /\ (arg.v.variant # "Null" /\ Decode(arg.ty, arg.v).status = "Ok")
                       => /\ ret.status = "Ok" /\ ret.some
                          /\ ret.val = Decode(arg.ty, arg.v).val
                 /\ (arg.v.variant # "Null" /\ Decode(arg.ty, arg.v).status # "Ok")
                       => /\ ret.status = "Err"
                          /\ ret.err = Decode(arg.ty, arg.v).err
        /\ fn = "get_value"
              => (arg.v.variant = "Null" => ret.status = "Ok" /\ ~ret.some)

\* C18's case: Null was decoded to Option<i64>, i64's own decoding of
\* Null being an error.
C18_Witness ==
    /\ pc = "done" /\ fn = "Option::decode"
    /\ arg.ty = "i64" /\ arg.v = PV_Null
    /\ Decode("i64", PV_Null).status = "Err"
    /\ ret.status = "Ok" /\ ~ret.some


----------------------------------------------------------------------------
(* Point::set_field on sample Points, keys and values (point.rs)            *)

\* The Points a field is set on.
SetFieldPoints ==
    {Point_default,
     Point(<<"m">>, <<<<NameHost, <<"a">>>>>>,
           <<<<<<"a">>, PV_Integer(W(7))>>, <<<<"Z">>, PV_Null>>>>,
           DateTime(1, 500000000))}

InitSetField ==
    /\ fn = "set_field"
    /\ \E point \in SetFieldPoints, key \in NameTexts,
          value \in {PV_Null, PV_Float(F64("fin", FALSE, 25)), PV_String(<<"a">>)} :
          arg = [point |-> point, key |-> key, value |-> value]
    /\ ret = <<>> /\ pc = "ready"
    /\ IdleBatcher /\ IdleStream

\* point.set_field(key, value)
SetField ==
    /\ pc = "ready" /\ fn = "set_field"
    /\ ret' = Point_set_field(arg.point, arg.key, arg.value)
    /\ pc' = "done"
    /\ UNCHANGED <<fn, arg, batcherVars, streamVars>>

NextSetField == SetField

SpecSetField == InitSetField /\ [][NextSetField]_vars

\* The entries of a field map under keys other than key.
EntriesBut(map, key) == {map[k] : k \in {j \in DOMAIN map : map[j][1] # key}}

\* C19: set_field with a key that fails validate_name leaves the whole
\* Point as it was; with a valid key it leaves measurement, tags and time
\* as they were, the key then holds the value, once, and every other key
\* holds what it held.
C19_SetFieldFrame ==
    (pc = "done" /\ fn = "set_field") =>
        /\ ~validate_name(arg.key) => ret = arg.point
        /\ validate_name(arg.key)
              => /\ ret.measurement_name = arg.point.measurement_name
                 /\ ret.tags = arg.point.tags
                 /\ ret.time = arg.point.time
                 /\ Cardinality(EntriesAt(ret.fields, arg.key)) = 1
                 /\ map_get(ret.fields, arg.key).value = arg.value
                 /\ EntriesBut(ret.fields, arg.key)
                       = EntriesBut(arg.point.fields, arg.key)
                 /\ Len(ret.fields)
                       = Cardinality(EntriesBut(arg.point.fields, arg.key)) + 1

\* C19's case: a key with a space was set on a Point that holds fields.
C19_Witness ==
    /\ pc = "done" /\ fn = "set_field"
    /\ arg.key = <<"a", " ">> /\ ~validate_name(arg.key)
    /\ arg.point.fields # <<>>
    /\ ret = arg.point


\* The groups of MAX_LINES points the added points fall into, by position:
\* group g holds added[g * MAX_LINES + 1 .. GroupEnd(g)].
GroupEnd(g) ==
    IF (g + 1) * MAX_LINES < Len(added) THEN (g + 1) * MAX_LINES ELSE Len(added)

Groups == IF added = <<>> THEN {} ELSE 0..((Len(added) - 1) \div MAX_LINES)

\* The points are small: no group of them serializes to MAX_BYTES bytes,
\* so that the open buffer never reaches the byte threshold.
NeverReachesMaxBytes ==
    \A g \in Groups : Len(SerializedRun(g * MAX_LINES, GroupEnd(g))) < MAX_BYTES

\* C20: when the points added are small enough for the open buffer never
\* to reach MAX_BYTES, finalize yields ceil(N / MAX_LINES) buffers for N
\* points, each but the last of exactly MAX_LINES lines and the last of the
\* lines that remain: MAX_LINES + 1 points give two buffers of MAX_LINES
\* lines and 1 line, MAX_LINES points give one buffer and no empty second.
C20_BufferCount ==
    (phase = "finalized" /\ NeverReachesMaxBytes) =>
        /\ Len(yielded) = (Len(added) + MAX_LINES - 1) \div MAX_LINES
        /\ \A b \in DOMAIN yielded :
              /\ b < Len(yielded) => LineCount(yielded[b]) = MAX_LINES
              /\ b = Len(yielded)
                    => LineCount(yielded[b]) = Len(added) - MAX_LINES * (b - 1)
        /\ Len(added) = MAX_LINES + 1
              => /\ Len(yielded) = 2
                 /\ LineCount(yielded[1]) = MAX_LINES
                 /\ LineCount(yielded[2]) = 1
        /\ Len(added) = MAX_LINES => Len(yielded) = 1

\* C20's case: one point more than MAX_LINES was added, all small, and
\* finalize yielded two buffers.
C20_Witness ==
    /\ phase = "finalized" /\ NeverReachesMaxBytes
    /\ Len(added) = MAX_LINES + 1
    /\ Len(yielded) = 2
    /\ LineCount(yielded[2]) = 1


----------------------------------------------------------------------------
(* Client::write_points_with_tags (client.rs).  The sink is the HTTP       *)
(* endpoint: each request gets one response, chosen by the environment.    *)

\* A response of the endpoint as the client reads it, or the failure of
\* send() itself.
TransportFailure ==
    [transport |-> FALSE, status |-> 0, retry_after |-> NoneText, json |-> FALSE,
     json_ok |-> FALSE, code |-> "", message |-> "", error |-> "",
     error_message |-> "", text |-> ""]

HttpResponse(status, retry_after, json, json_ok, code, message, error, error_message, text) ==
    [transport |-> TRUE, status |-> status, retry_after |-> retry_after,
     json |-> json, json_ok |-> json_ok, code |-> code, message |-> message,
     error |-> error, error_message |-> error_message, text |-> text]

\* A response with a plain-text body.
TextResponse(status, retry_after, text) ==
    HttpResponse(status, retry_after, FALSE, FALSE, "", "", "", "", text)

\* StatusCode::is_success
is_success(status) == status >= 200 /\ status < 300

\* retry_after.to_str().unwrap_or("0").parse::<u64>().unwrap_or(0), on
\* texts of at most nine digits
parse_retry_after(s) ==
    LET digits == IF s # <<>> /\ s[1] = "+" THEN Tail(s) ELSE s
    IN  IF digits = <<>> \/ \E k \in DOMAIN digits : digits[k] \notin Digits
        THEN 0
        ELSE DigitsToNat(digits)

\* The outcome of one step of write_points_with_tags.
ClientOk == [ok |-> TRUE, err |-> NoError]
ClientErr(e) == [ok |-> FALSE, err |-> e]

\* handle_http_err(resp)
handle_http_err(resp) ==
    IF is_success(resp.status) THEN ClientOk
    ELSE IF resp.retry_after.some
    THEN ClientErr(Error("RateLimited",
                         NatToChars(parse_retry_after(resp.retry_after.value)), ""))
    ELSE IF resp.json /\ ~resp.json_ok
    THEN ClientErr(Error("ReqwestError", <<>>, "json"))
    ELSE LET message == IF resp.json
                        THEN IF resp.message = "" /\ resp.code = ""
                             THEN resp.error_message
                             ELSE resp.error
                        ELSE resp.text
         IN  IF message = ""
             THEN ClientErr(Error("ApiError", NatToChars(resp.status), "HTTP error: {}"))
             ELSE ClientErr(Error("ApiError", <<>>, message))

\* The request body made of a buffer: gzip-encoded above the threshold.
request_body(gzip_threshold, buf) ==
    IF gzip_threshold > 0 /\ Len(buf) > gzip_threshold
    THEN [content_encoding |-> "gzip", gzip_of |-> buf]
    ELSE [content_encoding |-> "", gzip_of |-> buf]

\* Mutation of the loop's checks: a response of any status is passed over.
send_outcome_ignores_status(no_sync, resp) ==
    IF ~resp.transport THEN ClientErr(Error("ReqwestError", <<>>, "send"))
    ELSE ClientOk

\* The loop's body after send(): the transport error, V3NotSupported,
\* handle_http_err's error, or on to the next buffer.
send_outcome(no_sync, resp) ==
    IF ~resp.transport THEN ClientErr(Error("ReqwestError", <<>>, "send"))
    ELSE IF no_sync /\ resp.status = 405
    THEN ClientErr(Error("V3NotSupported", <<>>, ""))
    ELSE IF ~is_success(resp.status) THEN handle_http_err(resp)
    ELSE ClientOk

\* The most points one call is given.
MaxClientPoints == 5

ClientPointLists == UNION {[1..n -> {PointCpu, PointMem}] : n \in 0..MaxClientPoints}

\* The responses the endpoint gives.
Responses ==
    { TransportFailure,
      TextResponse(204, NoneText, ""),
      TextResponse(405, NoneText, ""),
      TextResponse(429, SomeText(<<"5">>), "slow down"),
      TextResponse(503, SomeText(<<"s", "o", "o", "n">>), ""),
      TextResponse(500, NoneText, "boom"),
      HttpResponse(400, NoneText, TRUE, TRUE, "invalid", "bad line", "partial write", "", ""),
      HttpResponse(500, NoneText, TRUE, TRUE, "", "", "", "inner", ""),
      HttpResponse(500, NoneText, TRUE, FALSE, "", "", "", "", "") }

\* The call's progress: the requests sent with their responses, and the
\* value returned, if any.
ClientState(sent, returned, result) ==
    [sent |-> sent, returned |-> returned, result |-> result]

InitClient ==
    /\ fn = "write_points_with_tags"
    /\ \E points \in ClientPointLists, no_sync \in BOOLEAN, gzip_threshold \in {0, 40} :
          arg = [points |-> points, no_sync |-> no_sync,
                 gzip_threshold |-> gzip_threshold]
    /\ \E p \in {"Nanoseconds", "Seconds"}, dtags \in DefaultTagSets :
          LET self == Batcher_new(p, dtags)
          IN  /\ buffers = self.buffers
              /\ current_buffer = self.current_buffer
              /\ current_lines = self.current_lines
              /\ precision = self.precision
              /\ default_tags = self.default_tags
    /\ added = <<>> /\ phase = "open" /\ yielded = <<>>
    /\ ret = ClientState(<<>>, FALSE, ClientOk) /\ pc = "batching"
    /\ IdleStream

\* One iteration of add_points' loop (client.rs:88).
ClientAddPoint ==
    /\ fn = "write_points_with_tags" /\ pc = "batching"
    /\ Len(added) < Len(arg.points)
    /\ StoreBatcher(Batcher_add_point(BatcherSelf, arg.points[Len(added) + 1]))
    /\ added' = Append(added, arg.points[Len(added) + 1])
    /\ UNCHANGED <<phase, yielded, streamVars, pureVars>>

\* The end of add_points and batcher.finalize() (client.rs:90-100).
ClientFinalize ==
    /\ fn = "write_points_with_tags" /\ pc = "batching"
    /\ Len(added) = Len(arg.points)
    /\ yielded' = Batcher_finalize(BatcherSelf)
    /\ buffers' = yielded'
    /\ current_buffer' = <<>>
    /\ phase' = "finalized"
    /\ pc' = "sending"
    /\ UNCHANGED <<current_lines, precision, default_tags, added, streamVars,
                   fn, arg, ret>>

\* One iteration of the loop over the buffers: the next buffer is sent,
\* the endpoint responds, and the call returns on an error.
ClientSend ==
    /\ fn = "write_points_with_tags" /\ pc = "sending"
    /\ Len(ret.sent) < Len(yielded)
    /\ \E resp \in Responses :
          /\ ret' = ClientState(
                       Append(ret.sent,
                              [body |-> request_body(arg.gzip_threshold,
                                                     yielded[Len(ret.sent) + 1]),
                               response |-> resp]),
                       ~send_outcome(arg.no_sync, resp).ok,
                       send_outcome(arg.no_sync, resp))
          /\ pc' = IF send_outcome(arg.no_sync, resp).ok THEN "sending" ELSE "returned"
    /\ UNCHANGED <<fn, arg, batcherVars, streamVars>>

\* The loop is over: Ok(()) (client.rs:126).
ClientReturn ==
    /\ fn = "write_points_with_tags" /\ pc = "sending"
    /\ Len(ret.sent) = Len(yielded)
    /\ ret' = ClientState(ret.sent, TRUE, ClientOk)
    /\ pc' = "returned"
    /\ UNCHANGED <<fn, arg, batcherVars, streamVars>>

NextClient == ClientAddPoint \/ ClientFinalize \/ ClientSend \/ ClientReturn

SpecClient == InitClient /\ [][NextClient]_vars

\* The sink accepted the request: a response of a success status.
Accepted(resp) == resp.transport /\ is_success(resp.status)

\* C21: the k-th request carries the k-th sealed buffer, so the buffers go
\* out in sealing order and each at most once; none goes out before every
\* point is batched; every request but the last was accepted, and a
\* rejected one ends the call at once with an error, whatever was accepted
\* before; the call returns Ok only with every buffer sent and accepted.
C21_BuffersSentInOrder ==
    fn = "write_points_with_tags" =>
        /\ ret.sent # <<>>
              => /\ added = arg.points
                 /\ phase = "finalized"
                 /\ Concat(yielded) = SerializedRun(0, Len(added))
        /\ Len(ret.sent) <= Len(yielded)
        /\ \A k \in DOMAIN ret.sent :
              /\ ret.sent[k].body.gzip_of = yielded[k]
              /\ k < Len(ret.sent) => Accepted(ret.sent[k].response)
        /\ (ret.sent # <<>> /\ ~Accepted(ret.sent[Len(ret.sent)].response))
              => /\ pc = "returned" /\ ret.returned
                 /\ ~ret.result.ok /\ ret.result.err # NoError
        /\ (ret.returned /\ ret.result.ok)
              => /\ Len(ret.sent) = Len(yielded)
                 /\ \A k \in DOMAIN ret.sent : Accepted(ret.sent[k].response)
        /\ (ret.returned /\ ~ret.result.ok)
              => /\ ret.sent # <<>>
                 /\ ~Accepted(ret.sent[Len(ret.sent)].response)

\* C21's case: the sink accepted the first buffer and rejected the second
\* of three; the call returned the error with the third unsent.
C21_Witness ==
    /\ fn = "write_points_with_tags" /\ pc = "returned"
    /\ Len(yielded) = 3 /\ Len(ret.sent) = 2
    /\ Accepted(ret.sent[1].response)
    /\ ret.sent[2].response.status = 429
    /\ ret.result = ClientErr(Error("RateLimited", <<"5">>, ""))


\* C22 as stated: between polls a buffered batch has unread rows.
C22_Original == batch_buffer.some => i < len

\* C22: between polls either no batch is buffered and cursor and row
\* count are zero, or a batch with rows is buffered, the row count is the
\* batch's and the cursor is at most the row count.  The cursor equals the
\* row count from the poll that produced the batch's last row until the
\* next poll, which drops the batch before it pulls from the source; the
\* cursor is zero with a batch buffered only after a poll that panicked.
C22_StreamStateShape ==
    /\ \/ /\ ~batch_buffer.some /\ i = 0 /\ len = 0
       \/ /\ batch_buffer.some
          /\ len = batch_buffer.batch.num_rows /\ len > 0
          /\ i <= len
          /\ i = 0 => last_poll = "Panic"
    /\ (batch_buffer.some /\ last_poll # "Panic") => last_poll = "Some"

\* C22's case: the last row of a two-row batch was produced and the batch
\* is still buffered.
C22_Witness ==
    /\ batch_buffer.some /\ len = 2 /\ i = len
    /\ last_poll = "Some"


\* C23: whenever the last poll returned Pending no batch is buffered and
\* cursor and row count are zero; and no step taken while a buffered batch
\* has unread rows returns Pending or takes anything from the source.
C23_SuspendsOnlyAwaiting ==
    /\ [](last_poll = "Pending" => (~batch_buffer.some /\ i = 0 /\ len = 0))
    /\ [][(batch_buffer.some /\ i < len)
             => /\ last_poll' # "Pending"
                /\ inner'.items = inner.items]_vars

\* C23's case: the stream suspended after it had produced rows, with
\* items of the source still to come.
C23_Witness ==
    /\ last_poll = "Pending"
    /\ produced # <<>> /\ inner.items # <<>>
    /\ ~batch_buffer.some /\ i = 0 /\ len = 0


----------------------------------------------------------------------------
(* The Batcher's open buffer between calls                                 *)

RECURSIVE SealedWithinBytes(_, _)
\* Every buffer of bufs, which are the serializations of consecutive runs
\* of the added points starting after added[start], is shorter than
\* MAX_BYTES once the bytes of its last point are removed.
SealedWithinBytes(bufs, start) ==
    \/ bufs = <<>>
    \/ \E k \in 1..(Len(added) - start) :
          /\ Head(bufs) = SerializedRun(start, start + k)
          /\ Len(Head(bufs)) - Len(SerializedPoint(added[start + k])) < MAX_BYTES
          /\ SealedWithinBytes(Tail(bufs), start + k)

\* C24: after every add_point call the open buffer holds fewer than
\* MAX_LINES lines and fewer than MAX_BYTES bytes, the line counter is the
\* number of points serialized into the open buffer (they are the last
\* current_lines points added, one newline each), and every sealed buffer
\* without the bytes of its last point is shorter than MAX_BYTES.
C24_OpenBufferBelowThresholds ==
    /\ phase = "open" =>
          /\ current_lines < MAX_LINES
          /\ Len(current_buffer) < MAX_BYTES
          /\ current_lines <= Len(added)
          /\ current_buffer = SerializedRun(Len(added) - current_lines, Len(added))
          /\ current_lines = LineCount(current_buffer)
    /\ phase \in {"open", "finalized"} => SealedWithinBytes(buffers, 0)

\* C24's case: add_point sealed a buffer that the last point carried over
\* the byte threshold, and points were added to the open buffer since.
C24_Witness ==
    /\ phase = "open"
    /\ \E b \in DOMAIN buffers : Len(buffers[b]) > MAX_BYTES
    /\ current_lines >= 2


----------------------------------------------------------------------------
(* Error items of the source                                               *)

\* A poll in this state pulls the source and finds an error item ready.
FacesErrorItem ==
    /\ ~(batch_buffer.some /\ i < len)
    /\ inner.avail > 0
    /\ inner.items # <<>>
    /\ Head(inner.items).kind = "error"

\* The step is a poll (a delivery of the source only raises inner.avail).
PollStep == inner'.avail <= inner.avail /\ vars' # vars

\* The last poll yielded the element of an error item.
AfterErrorItem ==
    /\ last_poll = "Some"
    /\ produced # <<>>
    /\ produced[Len(produced)] = FlightErrorElement

\* C25: a poll that finds an error item ready takes that one item and
\* yields exactly one error element for it, leaving no batch buffered and
\* the cursor and the row count zero; and the poll after it pulls the
\* source again: it suspends if nothing is ready, ends the stream only if
\* the source has ended, and otherwise takes the next item, the first row
\* of a batch with rows being decoded as get_point decodes it.
C25_ErrorItemPassesThrough ==
    /\ [][(FacesErrorItem /\ PollStep)
            => /\ produced' = Append(produced, FlightErrorElement)
               /\ last_poll' = "Some"
               /\ inner'.items = Tail(inner.items)
               /\ batch_buffer' = NoBatch /\ i' = 0 /\ len' = 0]_vars
    /\ [](AfterErrorItem => (~batch_buffer.some /\ i = 0 /\ len = 0))
    /\ [][(AfterErrorItem /\ PollStep)
            => IF inner.avail = 0
               THEN last_poll' = "Pending" /\ inner'.items = inner.items
               ELSE IF inner.items = <<>>
               THEN last_poll' = "None"
               ELSE /\ Len(inner'.items) < Len(inner.items)
                    /\ (Head(inner.items).kind = "batch"
                          /\ Head(inner.items).batch.num_rows > 0)
                       => \/ last_poll' = "Panic"
                          \/ /\ last_poll' = "Some"
                             /\ batch_buffer' = SomeBatch(Head(inner.items).batch)
                             /\ i' = 1
                             /\ produced' = Append(produced,
                                   get_point(Head(inner.items).batch, 0))]_vars

\* C25's case: the source gave an error item and then a batch; the error
\* element was yielded, and after it the rows of the batch.
C25_Witness ==
    /\ Len(source_all) = 2
    /\ source_all[1] = ErrorItem
    /\ source_all[2] = BatchItem(BatchCpu)
    /\ produced = <<FlightErrorElement>> \o RowElements(BatchCpu)
    /\ produced[Len(produced)].status = "Ok"


----------------------------------------------------------------------------
(* Cell extraction by physical type                                        *)

\* The value the cell of column k in the decoded row is to give by its
\* column's physical type: the variant of the type's kind, or Null (a
\* timestamp as get_arrow_value converts it by its unit).
ValueByPhysicalType(k) ==
    LET dt   == ColField(k).data_type
        cell == ColCell(k)
    IN  IF dt = "Null" \/ cell.null THEN ValueOk(PV_Null)
        ELSE CASE dt = "Boolean" -> ValueOk(PV_Boolean(cell.b))
               [] dt = "Float64" -> ValueOk(PV_Float(cell.f))
               [] dt = "Int64"   -> ValueOk(PV_Integer(cell.n))
               [] dt = "UInt64"  -> ValueOk(PV_UInteger(cell.n))
               [] dt = "Utf8"    -> ValueOk(PV_String(cell.s))
               [] OTHER          ->
                    get_arrow_value(arg.batch.columns[k], ColField(k), arg.row)

\* C26: get_arrow_value on a cell of a UInt64 column gives UInteger(v), or
\* Null for a null cell, and never fails; each other supported physical
\* type gives the variant of its own kind or Null.
C26_Original ==
    (pc = "done" /\ fn = "get_point") =>
        \A k \in DOMAIN arg.batch.fields :
            ColField(k).data_type \in SupportedTypes =>
                get_arrow_value(arg.batch.columns[k], ColField(k), arg.row)
                    = ValueByPhysicalType(k)


----------------------------------------------------------------------------
(* Ignored fields                                                          *)

\* Field k of the record definition carries the annotation key.
Marked(k, key) ==
    \E m \in DOMAIN arg.fields[k].metas : arg.fields[k].metas[m].key = key

\* The record definition is a record with named fields whose annotations
\* are all known ones.
WellFormedDefinition ==
    /\ arg.data = "Struct" /\ arg.fields_kind = "Named"
    /\ \A k \in DOMAIN arg.fields : \A m \in DOMAIN arg.fields[k].metas :
          arg.fields[k].metas[m].key
              \in {"time", "tag", "rename", "default", "ignore"}

\* The generated Point->record conversion fills field k with the type's
\* default value, whatever the Point holds.
FilledWithDefault(k) ==
    ret.out.status = "Ok"
        => /\ map_get(ret.out.record, arg.fields[k].name).some
           /\ map_get(ret.out.record, arg.fields[k].name).value
                 = default_of(arg.fields[k].ty)

\* The generated record->Point conversion writes nothing for field k: no
\* tag or field under its name, and the Point's time is not its member.
WritesNothing(k) ==
    ret.out.status = "Ok"
        => /\ EntriesAt(ret.out.point.tags, arg.fields[k].name) = {}
           /\ EntriesAt(ret.out.point.fields, arg.fields[k].name) = {}
           /\ arg.fields[k].ty = "DateTime"
                 => TV_DateTime(ret.out.point.time)
                        # map_get(ret.record, arg.fields[k].name).value

\* C27: for every ignored field of an accepted record definition, whatever
\* its name, the generated Point->record conversion fills it with the
\* type's default value and the generated record->Point conversion writes
\* nothing for it; and generation fails if an ignored field is not also
\* marked use-default, or is marked tag or time.
C27_Original ==
    /\ (pc = "converted" /\ fn = "derive_from_point")
          => \A k \in DOMAIN arg.fields : Marked(k, "ignore") => FilledWithDefault(k)
    /\ (pc = "converted" /\ fn = "derive_into_point")
          => \A k \in DOMAIN arg.fields : Marked(k, "ignore") => WritesNothing(k)
    /\ (pc = "derived" /\ WellFormedDefinition)
          => \A k \in DOMAIN arg.fields :
                (Marked(k, "ignore")
                    /\ (~Marked(k, "default") \/ Marked(k, "tag") \/ Marked(k, "time")))
                   => ret.status = "Err"

\* What holds of C27: the same of ignored fields not named 'time', with
\* the use-default rule only in the generation of the Point->record
\* conversion.
IgnoredFieldsNotNamedTime ==
    /\ (pc = "converted" /\ fn = "derive_from_point")
          => \A k \in DOMAIN arg.fields :
                (Marked(k, "ignore") /\ arg.fields[k].name # NameTime)
                   => FilledWithDefault(k)
    /\ (pc = "converted" /\ fn = "derive_into_point")
          => \A k \in DOMAIN arg.fields : Marked(k, "ignore") => WritesNothing(k)
    /\ (pc = "derived" /\ WellFormedDefinition)
          => \A k \in DOMAIN arg.fields :
                (Marked(k, "ignore")
                    /\ \/ Marked(k, "tag") \/ Marked(k, "time")
                       \/ ~Marked(k, "default") /\ fn = "derive_from_point")
                   => ret.status = "Err"


----------------------------------------------------------------------------
(* The measurement column                                                  *)

\* Column k bears one of the two reserved names.
HasMeasurementName(k) == ColField(k).name \in {NameMeasurement, NameIoxMeasurement}

\* No column other than those consumed as the measurement bears the name
\* of column k.
OnlyMeasurementUnderName(k) ==
    \A j \in DOMAIN arg.batch.fields :
        ColField(j).name = ColField(k).name => ColIsMeasurement(j)

\* The decoded Point holds a tag or a field under the name of column k.
TagOrFieldUnderName(k) ==
    \/ EntriesAt(ret.point.tags, ColField(k).name) # {}
    \/ EntriesAt(ret.point.fields, ColField(k).name) # {}

\* A non-null text column with a reserved name sets the measurement (the
\* last such column's text stays) and gives no tag and no field, whatever
\* its classification metadata.
MeasurementColumnConsumed ==
    DecodedOk =>
        LET ms == {k \in DOMAIN arg.batch.fields : ColIsMeasurement(k)}
        IN  /\ ms # {} => ret.point.measurement_name = ColCell(MaxIn(ms)).s
            /\ \A k \in ms : OnlyMeasurementUnderName(k) => ~TagOrFieldUnderName(k)

\* C28 as stated: the above, and no column with a reserved name ends up as
\* a tag or a field of the decoded Point.
C28_Original ==
    /\ MeasurementColumnConsumed
    /\ DecodedOk =>
          \A k \in DOMAIN arg.batch.fields :
              HasMeasurementName(k) => ~TagOrFieldUnderName(k)

\* C28, corrected: a non-null text column with a reserved name sets the
\* measurement and gives no tag and no field, whatever its metadata; a
\* column with a reserved name that is not text, or whose cell is null, is
\* classified like any other column: named 'measurement' and classified as
\* a field it becomes the field 'measurement' (Null for a null cell), and
\* classified as a tag with a non-null text cell it would be a tag (such a
\* column is not text, so its decoding fails instead); named
\* 'iox::measurement' it leaves nothing, the name being no valid key.
C28_MeasurementColumn ==
    /\ MeasurementColumnConsumed
    /\ DecodedOk =>
          \A k \in DOMAIN arg.batch.fields :
              (HasMeasurementName(k) /\ ~ColIsMeasurement(k))
                 => /\ (ColIsField(k) /\ ColField(k).name = NameMeasurement)
                       => \E e \in EntriesAt(ret.point.fields, NameMeasurement) :
                             ret.point.fields[e][2] = ColValue(k)
                    /\ ColIsTag(k) => ColIsNull(k)
                    /\ (ColIsTag(k) \/ ColIsTime(k)
                           \/ ColField(k).name = NameIoxMeasurement)
                       => ~TagOrFieldUnderName(k)

\* C28's case: a text column named 'measurement' and classified as a tag
\* was decoded beside a float column: its text is the measurement, and the
\* Point has no tag and the one field of the other column.
C28_Witness ==
    /\ DecodedOk
    /\ \E k \in DOMAIN arg.batch.fields :
          /\ ColIsMeasurement(k)
          /\ ColField(k).metadata = MetaTag
          /\ ret.point.measurement_name = ColCell(k).s
    /\ ret.point.tags = <<>>
    /\ Len(ret.point.fields) = 1
    /\ ret.point.fields[1][1] = NameCpuPct


----------------------------------------------------------------------------
(* Points without fields on the write path                                 *)

MaxFieldlessPoints == 4

\* Points with an empty field set, with and without an own tag, at an
\* instant after and one before the epoch.
FieldlessPoints ==
    {Point(<<"c", "p", "u">>, tags, <<>>, t) :
        tags \in {<<>>, <<<<NameHost, <<"a">>>>>>},
        t \in {DateTime(0, 7), DateTime(-1, 999999000)}}

\* batcher.add_point(point) with a point without fields, or with one.
AddFieldlessPoint ==
    /\ phase = "open"
    /\ Len(added) < MaxFieldlessPoints
    /\ \E point \in FieldlessPoints \cup {PointCpu} :
          /\ StoreBatcher(Batcher_add_point(BatcherSelf, point))
          /\ added' = Append(added, point)
    /\ UNCHANGED <<phase, yielded, streamVars, pureVars>>

NextFieldless == AddFieldlessPoint \/ Finalize

SpecFieldless == InitBatcher /\ [][NextFieldless]_vars

\* The line of a point without fields: measurement and tags, two spaces,
\* the timestamp, a newline.
FieldlessLine(point) ==
    point.measurement_name \o TagSection(default_tags) \o TagSection(point.tags)
        \o <<" ", " ">>
        \o IntToChars(process_timestamp(precision, point.time)) \o <<"\n">>

============================================================================
